---- MODULE Spec2Model ----
(***************************************************************************)
(* Model of the route optimizer (app.py, src/data_handler.py,              *)
(* src/optimizer.py, src/services.py, src/exporter.py, src/utils.py,       *)
(* src/gemini_services.py) and of lembrete_commit_v2.py.                   *)
(*                                                                         *)
(* Coordinates are Python floats in the program.  Here a coordinate is an  *)
(* integer counting units of 10^-FracDigits degrees, which is exact for    *)
(* every decimal text with at most FracDigits fractional digits; every     *)
(* text the specifications below feed to the parsers is of that kind.      *)
(* Texts are TLA+ strings, read character by character with SubSeq.        *)
(*                                                                         *)
(* The specifications share the variables; each leaves the variables of    *)
(* the other components at their idle values:                              *)
(*   SpecExtract   one call of extract_coords_from_text                    *)
(*   SpecResolver  one call of _auto_detect_and_standardize_columns        *)
(*   SpecOffline   one call of ortools_optimizer                           *)
(*   SpecSession   the handlers of app.py on one Streamlit session         *)
(*   SpecValidate  one call of _validate_coordinates on Python values      *)
(*   SpecClean     one call of clean_data                                  *)
(*   SpecProcess   one call of a process_* function on a parsed table      *)
(*   SpecOnline    one call of optimize_route_online                       *)
(*   SpecLinks     one call of generate_google_maps_links                  *)
(*   SpecGemini    one call of _call_gemini_api                            *)
(*   SpecReminder  the main loop of the commit reminder                    *)
(*   SpecDistance  one call of haversine_distance                          *)
(***************************************************************************)
EXTENDS Integers, Sequences, FiniteSets, TLC

VARIABLES
    op,          \* name of the operation that produced the current state
    text,        \* argument of extract_coords_from_text: [isstr, s]
    text_cleaned,\* its local text_cleaned after strip / redirect / re.sub
    coords,      \* its return value: None or Some(<<lat, lon>>)
    df_columns,  \* df.columns handed to _auto_detect_and_standardize_columns
    picked,      \* its original_col_name for each canonical field, or None
    std_columns, \* df.columns when it returns
    df,          \* argument of ortools_optimizer: the rows, as <<lat, lon>>
    start_node,  \* its argument start_node
    end_node,    \* its argument end_node
    solver_calls,\* number of calls of routing.SolveWithParameters it made
    solution,    \* what the solver returned: None or Some(visiting order)
    route_indices,\* its local route_indices, <<>> while not built
    optimized_df,\* its return value
    processed_data,          \* st.session_state.processed_data
    optimized_data,          \* st.session_state.optimized_data
    raw_data_for_mapping,    \* st.session_state.raw_data_for_mapping
    manual_mapping_required, \* st.session_state.manual_mapping_required
    route_geojson,           \* st.session_state.route_geojson
    total_distance,          \* st.session_state.total_distance
    total_duration,          \* st.session_state.total_duration
    ORS_API_KEY, \* st.secrets["ORS_API_KEY"], "" when not configured
    message,     \* what the last handler showed: none/success/warning/error
    requests,    \* the HTTP requests the last handler sent to the routing API
    args,        \* arguments of the function a call specification exercises
    returned,    \* what that function returned, or the exception it raised
    jobs,        \* optimize_route_online's local jobs
    final_route_indices, \* its local final_route_indices, <<>> while not built
    env,         \* parameters and environment of a procedure run step by step
    pc,          \* the position of that procedure: its loop counter
    trace        \* what it did so far: the links built, the calls made

extractVars == <<text, text_cleaned, coords>>
resolverVars == <<df_columns, picked, std_columns>>
offlineVars ==
    <<df, start_node, end_node, solver_calls, solution, route_indices, optimized_df>>
sessionVars ==
    <<processed_data, optimized_data, raw_data_for_mapping, manual_mapping_required,
      route_geojson, total_distance, total_duration, ORS_API_KEY, message, requests>>
callVars == <<args, returned>>
onlineVars == <<jobs, final_route_indices>>
procVars == <<env, pc, trace>>
vars ==
    <<op, extractVars, resolverVars, offlineVars, sessionVars, callVars, onlineVars,
      procVars>>

-----------------------------------------------------------------------------
(* Python's None / a present value *)
None == [some |-> FALSE, val |-> <<>>]
Some(v) == [some |-> TRUE, val |-> v]

\* the variables of a component a specification does not exercise
ExtractIdle ==
    /\ text = [isstr |-> FALSE, s |-> ""]
    /\ text_cleaned = ""
    /\ coords = None

ResolverIdle ==
    /\ df_columns = <<>>
    /\ picked = <<>>
    /\ std_columns = <<>>

OfflineIdle ==
    /\ df = <<>>
    /\ start_node = 0
    /\ end_node = 0
    /\ solver_calls = 0
    /\ solution = None
    /\ route_indices = <<>>
    /\ optimized_df = <<>>

SessionIdle ==
    /\ processed_data = None
    /\ optimized_data = None
    /\ raw_data_for_mapping = None
    /\ manual_mapping_required = FALSE
    /\ route_geojson = None
    /\ total_distance = None
    /\ total_duration = None
    /\ ORS_API_KEY = ""
    /\ message = "none"
    /\ requests = <<>>

CallIdle ==
    /\ args = <<>>
    /\ returned = None

OnlineIdle ==
    /\ jobs = <<>>
    /\ final_route_indices = <<>>

ProcIdle ==
    /\ env = <<>>
    /\ pc = 0
    /\ trace = <<>>

-----------------------------------------------------------------------------
(* Fixed-point floats *)

\* number of fractional decimal digits a model float keeps
FracDigits == 4

RECURSIVE Pow10(_)
Pow10(n) == IF n = 0 THEN 1 ELSE 10 * Pow10(n - 1)

\* one degree, in model units
Scale == Pow10(FracDigits)

Char(s, i) == SubSeq(s, i, i)

Digits == {"0", "1", "2", "3", "4", "5", "6", "7", "8", "9"}

DigitVal(c) ==
    CASE c = "0" -> 0 [] c = "1" -> 1 [] c = "2" -> 2 [] c = "3" -> 3
      [] c = "4" -> 4 [] c = "5" -> 5 [] c = "6" -> 6 [] c = "7" -> 7
      [] c = "8" -> 8 [] c = "9" -> 9

\* index just past the longest run of digits of s that starts at i (\d* at i)
RECURSIVE DigitsEnd(_, _)
DigitsEnd(s, i) ==
    IF i <= Len(s) /\ Char(s, i) \in Digits THEN DigitsEnd(s, i + 1) ELSE i

\* value of the digit string s[i..j-1] read as a natural number
RECURSIVE NatOf(_, _, _)
NatOf(s, i, j) ==
    IF j <= i THEN 0 ELSE 10 * NatOf(s, i, j - 1) + DigitVal(Char(s, j - 1))

\* the float whose text m has its first digit at i0 and its point at dot
FloatOfParts(m, i0, dot) ==
    (IF i0 = 2 THEN 0 - 1 ELSE 1)
    * (NatOf(m, i0, dot) * Scale
       + NatOf(m, dot + 1, Len(m) + 1) * Pow10(FracDigits - (Len(m) - dot)))

FloatFrom(m, i0) == FloatOfParts(m, i0, DigitsEnd(m, i0))

\* float(m) for a text m matched by -?\d+\.\d+ : sign, integer part and
\* fraction, in model units
ToFloat(m) == FloatFrom(m, IF Char(m, 1) = "-" THEN 2 ELSE 1)

-----------------------------------------------------------------------------
(* GeoValidator *)

\* -90 <= float(latitude) <= 90 and -180 <= float(longitude) <= 180
_validate_coordinates(latitude, longitude) ==
    /\ 0 - 90 * Scale <= latitude /\ latitude <= 90 * Scale
    /\ 0 - 180 * Scale <= longitude /\ longitude <= 180 * Scale

-----------------------------------------------------------------------------
(* CoordinateExtractor: the regular expressions of extract_coords_from_text *)

\* str.strip(): leading and trailing blanks removed
RECURSIVE LStrip(_)
LStrip(s) == IF Len(s) > 0 /\ Char(s, 1) = " " THEN LStrip(SubSeq(s, 2, Len(s))) ELSE s
RECURSIVE RStrip(_)
RStrip(s) ==
    IF Len(s) > 0 /\ Char(s, Len(s)) = " " THEN RStrip(SubSeq(s, 1, Len(s) - 1)) ELSE s
Strip(s) == LStrip(RStrip(s))

\* needle in s
Contains(s, needle) ==
    \E i \in 1..(Len(s) - Len(needle) + 1) : SubSeq(s, i, i + Len(needle) - 1) = needle

\* the character class of re.sub(r"[°'\"()NnSsOoWwEe]", "", ...)
DecorChars == {"°", "'", "\"", "(", ")", "N", "n", "S", "s", "O", "o", "W", "w", "E", "e"}

RECURSIVE StripDecor(_)
StripDecor(s) ==
    IF Len(s) = 0 THEN ""
    ELSE (IF Char(s, 1) \in DecorChars THEN "" ELSE Char(s, 1))
         \o StripDecor(SubSeq(s, 2, Len(s)))

\* -?\d+\.\d+ anchored at i: the index just past the match, 0 when there is
\* none.  Every part is greedy and none can give a character back (a digit
\* run must be followed by a non-digit), so the match is unique.  j is the
\* index after the optional sign, k after the integer digits, m after the
\* fraction digits.
NumEndFrac(k, m) == IF m > k + 1 THEN m ELSE 0
NumEndDot(s, j, k) ==
    IF k > j /\ k <= Len(s) /\ Char(s, k) = "." THEN NumEndFrac(k, DigitsEnd(s, k + 1))
    ELSE 0
NumEndInt(s, j) == NumEndDot(s, j, DigitsEnd(s, j))
NumEnd(s, i) == NumEndInt(s, IF i <= Len(s) /\ Char(s, i) = "-" THEN i + 1 ELSE i)

\* re.findall(r"-?\d+\.\d+", s): the non-overlapping matches, left to right;
\* e is NumEnd(s, i)
RECURSIVE FindNumbersFrom(_, _)
FindNumbersStep(s, i, e) ==
    IF e > 0 THEN <<SubSeq(s, i, e - 1)>> \o FindNumbersFrom(s, e)
    ELSE FindNumbersFrom(s, i + 1)
FindNumbersFrom(s, i) ==
    IF i > Len(s) THEN <<>> ELSE FindNumbersStep(s, i, NumEnd(s, i))
FindNumbers(s) == FindNumbersFrom(s, 1)

\* lit (num) sep (num) anchored at i: <<group 1, group 2, end>> or <<>>;
\* the first number is s[a..e1-1], the second s[b..e2-1]
PairSecond(s, a, e1, b, e2) ==
    IF e2 > 0 THEN <<SubSeq(s, a, e1 - 1), SubSeq(s, b, e2 - 1), e2>> ELSE <<>>
PairFirst(s, a, e1, sep) ==
    IF e1 > 0 /\ e1 + Len(sep) - 1 <= Len(s) /\ SubSeq(s, e1, e1 + Len(sep) - 1) = sep
    THEN PairSecond(s, a, e1, e1 + Len(sep), NumEnd(s, e1 + Len(sep)))
    ELSE <<>>
PairAt(s, i, lit, sep) ==
    IF i + Len(lit) - 1 <= Len(s) /\ SubSeq(s, i, i + Len(lit) - 1) = lit
    THEN PairFirst(s, i + Len(lit), NumEnd(s, i + Len(lit)), sep)
    ELSE <<>>

\* re.search(lit(num)sep(num), s): the groups of the leftmost match, or <<>>;
\* p is PairAt(s, i, lit, sep)
RECURSIVE SearchPairFrom(_, _, _, _)
SearchPairStep(s, i, lit, sep, p) ==
    IF p # <<>> THEN <<p[1], p[2]>> ELSE SearchPairFrom(s, i + 1, lit, sep)
SearchPairFrom(s, i, lit, sep) ==
    IF i > Len(s) THEN <<>> ELSE SearchPairStep(s, i, lit, sep, PairAt(s, i, lit, sep))
SearchPair(s, lit, sep) == SearchPairFrom(s, 1, lit, sep)

\* re.findall(r"!2d(num)!3d(num)|!3d(num)!4d(num)", s): one 4-tuple of groups
\* per match, the groups of the alternative that did not match being "";
\* p1 and p2 are the two alternatives anchored at i
RECURSIVE FindDirFrom(_, _)
FindDirStep(s, i, p1, p2) ==
    IF p1 # <<>> THEN <<<<p1[1], p1[2], "", "">>>> \o FindDirFrom(s, p1[3])
    ELSE IF p2 # <<>> THEN <<<<"", "", p2[1], p2[2]>>>> \o FindDirFrom(s, p2[3])
    ELSE FindDirFrom(s, i + 1)
FindDirFrom(s, i) ==
    IF i > Len(s) THEN <<>>
    ELSE FindDirStep(s, i, PairAt(s, i, "!2d", "!3d"), PairAt(s, i, "!3d", "!4d"))
FindDir(s) == FindDirFrom(s, 1)

\* TryBothOrders with the two orders tried the other way round
TryBothOrders_lonlat_first(c1, c2) ==
    IF _validate_coordinates(c2, c1) THEN Some(<<c2, c1>>)
    ELSE IF _validate_coordinates(c1, c2) THEN Some(<<c1, c2>>)
    ELSE None

\* lines 307-308: c1, c2 as (lat, lon), then as (lon, lat)
TryBothOrders(c1, c2) ==
    IF _validate_coordinates(c1, c2) THEN Some(<<c1, c2>>)
    ELSE IF _validate_coordinates(c2, c1) THEN Some(<<c2, c1>>)
    ELSE None

\* ScanFirstTwo pairing a lone number with itself
ScanFirstTwo_single_number(numbers) ==
    IF Len(numbers) >= 2 THEN TryBothOrders(ToFloat(numbers[1]), ToFloat(numbers[2]))
    ELSE IF Len(numbers) = 1 THEN Some(<<ToFloat(numbers[1]), ToFloat(numbers[1])>>)
    ELSE None

\* lines 303-310 on numbers, the list re.findall returned
ScanFirstTwo(numbers) ==
    IF Len(numbers) >= 2 THEN TryBothOrders(ToFloat(numbers[1]), ToFloat(numbers[2]))
    ELSE None

\* lines 301-310: the first two numbers of t, as (lat, lon) and then as
\* (lon, lat); None when neither order validates or t has fewer than two
NumberScan(t) == ScanFirstTwo(FindNumbers(t))

\* Validated returning the pair unchecked
Validated_unchecked(lat, lon) == Some(<<lat, lon>>)

\* "if _validate_coordinates(lat, lon): return lat, lon" of lines 315, 322, 327
Validated(lat, lon) ==
    IF _validate_coordinates(lat, lon) THEN Some(<<lat, lon>>) ELSE None

\* lines 313-315 and 325-327 on match, the groups re.search returned
ValidatedMatch(match) ==
    IF match = <<>> THEN None ELSE Validated(ToFloat(match[1]), ToFloat(match[2]))

\* lines 312-315 and 324-327: lit(lat),(lon) searched in t, validated
MarkerPair(t, lit) == ValidatedMatch(SearchPair(t, lit, ","))

\* lines 320-322 for one match m of the directions pattern
DirPair(m) ==
    IF m[3] # "" THEN Validated(ToFloat(m[3]), ToFloat(m[4]))
    ELSE Validated(ToFloat(m[2]), ToFloat(m[1]))

\* lines 319-322: the matches from the k-th on, in text order; r is DirPair
\* of the k-th
RECURSIVE FirstValidDir(_, _)
DirOrNext(dir_match, k, r) == IF r.some THEN r ELSE FirstValidDir(dir_match, k + 1)
FirstValidDir(dir_match, k) ==
    IF k > Len(dir_match) THEN None ELSE DirOrNext(dir_match, k, DirPair(dir_match[k]))

\* lines 317-322: the directions markers, matches tried in text order
DirMarkers(t) == FirstValidDir(FindDir(t), 1)

\* lines 301-329: the strategies in their order, on the stripped text t; r is
\* what the strategy before returned
AfterDir(t, r) == IF r.some THEN r ELSE MarkerPair(t, "?q=")
AfterAt_query_before_directions(t, r) ==
    IF r.some THEN r
    ELSE IF MarkerPair(t, "?q=").some THEN MarkerPair(t, "?q=")
    ELSE DirMarkers(t)
AfterAt(t, r) == IF r.some THEN r ELSE AfterDir(t, DirMarkers(t))
AfterScan(t, r) == IF r.some THEN r ELSE AfterAt(t, MarkerPair(t, "@"))
FirstValidating(t) == AfterScan(t, NumberScan(t))

\* the body of extract_coords_from_text from the re.sub on: tc is text_cleaned
\* after strip() and the optional redirect
ExtractFrom(tc) == FirstValidating(StripDecor(tc))

\* the short-link domain whose links are resolved by a HEAD request
ShortLinkDomain == "maps.app.goo.gl"

\* text_cleaned before the re.sub: text.strip(), replaced by response.url when
\* the text holds the short-link domain and the HEAD request succeeded
\* (head = Some(url)); a failed request (head = None) leaves it as it was
CleanedText(s, head) ==
    IF Contains(Strip(s), ShortLinkDomain) /\ head.some THEN head.val ELSE Strip(s)

\* extract_coords_from_text(text); t is [isstr, s], head the HEAD outcome
extract_coords_from_text(t, head) ==
    IF ~t.isstr THEN None ELSE ExtractFrom(CleanedText(t.s, head))

-----------------------------------------------------------------------------
(* ColumnResolver: _auto_detect_and_standardize_columns *)

UpperLetters == <<"A", "B", "C", "D", "E", "F", "G", "H", "I", "J", "K", "L", "M",
                  "N", "O", "P", "Q", "R", "S", "T", "U", "V", "W", "X", "Y", "Z">>
LowerLetters == <<"a", "b", "c", "d", "e", "f", "g", "h", "i", "j", "k", "l", "m",
                  "n", "o", "p", "q", "r", "s", "t", "u", "v", "w", "x", "y", "z">>

\* str.lower() on the letters A-Z; every other character is kept
LowerChar(c) ==
    IF \E i \in 1..Len(UpperLetters) : UpperLetters[i] = c
    THEN LowerLetters[CHOOSE i \in 1..Len(UpperLetters) : UpperLetters[i] = c]
    ELSE c

RECURSIVE Lower(_)
Lower(s) ==
    IF Len(s) = 0 THEN "" ELSE LowerChar(Char(s, 1)) \o Lower(SubSeq(s, 2, Len(s)))

\* the keywords dict, in its insertion order
keywords == <<
    [standard_name |-> "Latitude", kws |-> <<"latitude", "lat">>],
    [standard_name |-> "Longitude", kws |-> <<"longitude", "lon", "lng">>],
    [standard_name |-> "Nome",
     kws |-> <<"nome", "name", "título", "ref", "ponto", "local", "referencia">>],
    [standard_name |-> "Link", kws |-> <<"link", "url", "gmaps", "maps">>] >>

Range(f) == {f[i] : i \in DOMAIN f}

\* the keys of df_cols_lower built without lower()
ColsLowerKeys_case_sensitive(cols) == Range(cols)

\* df_cols_lower = {c.lower(): c for c in df.columns}: the keys
ColsLowerKeys(cols) == {Lower(c) : c \in Range(cols)}

\* df_cols_lower[k]: a later column overwrites an earlier one with the same key
ColsLowerAt(cols, k) ==
    LET at == {i \in 1..Len(cols) : Lower(cols[i]) = k}
    IN cols[CHOOSE i \in at : \A j \in at : j <= i]

\* PickFor scanning the columns, not the keywords: the first column, in
\* column order, whose lower-cased name is any keyword of the entry
PickFor_column_order(cols, kw_entry) ==
    LET hits == {i \in 1..Len(cols) : Lower(cols[i]) \in Range(kw_entry.kws)}
        first == CHOOSE i \in hits : \A j \in hits : i <= j
    IN IF kw_entry.standard_name \in Range(cols) \/ hits = {} THEN None
       ELSE Some(cols[first])

\* the inner loop for one entry kw_entry of keywords: the column picked for it
\* (the one behind the first keyword that is a key), or None
PickFor(cols, kw_entry) ==
    LET kws == kw_entry.kws
        hits == {n \in 1..Len(kws) : kws[n] \in ColsLowerKeys(cols)}
        first == CHOOSE n \in hits : \A m \in hits : n <= m
    IN IF kw_entry.standard_name \in Range(cols) \/ hits = {} THEN None
       ELSE Some(ColsLowerAt(cols, kws[first]))

\* original_col_name of every entry of keywords
PickedColumns(cols) == [n \in 1..Len(keywords) |-> PickFor(cols, keywords[n])]

\* rename_map[c]: the dict keeps the last standard_name assigned to key c
RenameTarget(cols, c) ==
    LET pk == PickedColumns(cols)
        for == {n \in 1..Len(keywords) : pk[n] = Some(c)}
    IN IF for = {} THEN c
       ELSE keywords[CHOOSE n \in for : \A m \in for : m <= n].standard_name

\* df.columns after df.rename(columns=rename_map)
_auto_detect_and_standardize_columns(cols) ==
    [i \in 1..Len(cols) |-> RenameTarget(cols, cols[i])]

-----------------------------------------------------------------------------
(* Inputs of the resolver specification *)

\* most columns a table of the resolver specification has
MaxCols == 3

ColNames == {"lat", "LAT", "latitude", "Latitude", "lng", "Longitude",
             "name", "Nome", "title", "URL", "obs"}

\* the parsers hand over tables whose column names are distinct
RECURSIVE ColumnLists(_)
ColumnLists(n) ==
    IF n = 0 THEN {<<>>}
    ELSE LET shorter == ColumnLists(n - 1)
         IN shorter \cup {Append(cl, c) : cl \in {x \in shorter : Len(x) = n - 1},
                                          c \in ColNames}

DistinctColumnLists ==
    {cl \in ColumnLists(MaxCols) : \A i, j \in 1..Len(cl) : i # j => cl[i] # cl[j]}

InitResolver ==
    /\ op = "init"
    /\ df_columns \in DistinctColumnLists
    /\ picked = <<>>
    /\ std_columns = <<>>
    /\ ExtractIdle
    /\ OfflineIdle
    /\ SessionIdle
    /\ CallIdle
    /\ OnlineIdle
    /\ ProcIdle

\* one call of _auto_detect_and_standardize_columns(df)
Resolve ==
    /\ op = "init"
    /\ picked' = PickedColumns(df_columns)
    /\ std_columns' = _auto_detect_and_standardize_columns(df_columns)
    /\ op' = "resolve"
    /\ UNCHANGED <<df_columns, extractVars, offlineVars, sessionVars, callVars, onlineVars, procVars>>

NextResolver == Resolve

SpecResolver == InitResolver /\ [][NextResolver]_vars

-----------------------------------------------------------------------------
(* Claims about the resolver, checked under SpecResolver *)

\* the columns of cols whose lower-cased name is a keyword of entry n
SynonymColumns(cols, n) ==
    {i \in 1..Len(cols) : Lower(cols[i]) \in Range(keywords[n].kws)}

\* C9 (as claimed): columns ["lat", "lng", "title"] resolve to a table that
\* has Latitude, Longitude and Nome, and every column that is a
\* case-insensitive synonym of a canonical field is renamed to that field.
C9_LatLngTitle ==
    op = "resolve" =>
        /\ df_columns = <<"lat", "lng", "title">>
              => {"Latitude", "Longitude", "Nome"} \subseteq Range(std_columns)
        /\ \A n \in 1..Len(keywords) : \A i \in SynonymColumns(df_columns, n) :
              std_columns[i] = keywords[n].standard_name

\* C9 (amended): columns ["lat", "lng", "name"] resolve to Latitude, Longitude,
\* Nome; "title" is no synonym of Nome and stays as it is; and whenever some
\* column is a case-insensitive synonym of a canonical field, the resolved
\* table has a column of that field's name.
C9_LatLngName ==
    op = "resolve" =>
        /\ df_columns = <<"lat", "lng", "name">>
              => std_columns = <<"Latitude", "Longitude", "Nome">>
        /\ df_columns = <<"lat", "lng", "title">>
              => std_columns = <<"Latitude", "Longitude", "title">>
        /\ \A n \in 1..Len(keywords) :
              SynonymColumns(df_columns, n) # {}
                => keywords[n].standard_name \in Range(std_columns)

\* C9 witness: the upper-case synonym LAT was renamed beside lng and name
C9_Witness ==
    /\ op = "resolve"
    /\ df_columns = <<"LAT", "lng", "name">>
    /\ std_columns = <<"Latitude", "Longitude", "Nome">>

\* C10: for a canonical field that is no column yet and has a matching
\* synonym, exactly one column is renamed to it, the one whose lower-cased
\* name is the earliest matching synonym in keyword order; a field already
\* present, or without a match, gets no column; no column is picked for two
\* fields; afterwards each canonical name is borne by at most one column.
C10_EarliestSynonym ==
    op = "resolve" =>
        /\ \A n \in 1..Len(keywords) :
              LET f == keywords[n].standard_name
                  kws == keywords[n].kws
                  matched == {m \in 1..Len(kws) :
                                 \E c \in Range(df_columns) : Lower(c) = kws[m]}
                  earliest == CHOOSE m \in matched : \A k \in matched : m <= k
                  renamed == {i \in 1..Len(df_columns) :
                                 std_columns[i] = f /\ df_columns[i] # f}
              IN /\ f \in Range(df_columns) => renamed = {} /\ picked[n] = None
                 /\ f \notin Range(df_columns) /\ matched = {} => renamed = {}
                 /\ f \notin Range(df_columns) /\ matched # {}
                      => /\ Cardinality(renamed) = 1
                         /\ \A i \in renamed :
                               /\ Lower(df_columns[i]) = kws[earliest]
                               /\ picked[n] = Some(df_columns[i])
                 /\ Cardinality({i \in 1..Len(std_columns) : std_columns[i] = f}) <= 1
        /\ \A n, m \in 1..Len(keywords) :
              n # m /\ picked[n].some => picked[n] # picked[m]
        /\ \A i \in 1..Len(df_columns) :
              std_columns[i] # df_columns[i]
                => \E n \in 1..Len(keywords) : picked[n] = Some(df_columns[i])

\* C10 witness: lat stands before latitude, and latitude, the earlier
\* synonym, is the column renamed
C10_Witness ==
    /\ op = "resolve"
    /\ df_columns = <<"lat", "latitude", "obs">>
    /\ std_columns = <<"lat", "Latitude", "obs">>

-----------------------------------------------------------------------------
(* Inputs of the extractor specification *)

\* decimal texts: two valid latitudes, a longitude-only value, a value out
\* of every range, and the range ends
NumTexts == {"-23.5613", "-46.6565", "-120.5", "200.25", "90.0", "180.0"}

\* what precedes the coordinates: nothing, a link head, a lone number, and
\* pairs that validate in no order
Prefixes == {"", " ", "https://www.google.com/maps/place/", "17.5z ",
             "/data=200.25,300.5/", "x-181.0 y95.125 "}

\* <<before the first number, between the two numbers, after the second>>
Shapes == {<<"", ",", "">>, <<"", ", ", " ">>, <<"(", "°, ", "°)">>, <<"", "S ", "W">>,
           <<"@", ",", ",17z">>, <<"!2d", "!3d", "!4m2">>, <<"!3d", "!4d", "?hl=pt">>,
           <<"?q=", ",", "&z=3">>, <<"@", ";", "">>, <<"!2d", "!4d", "">>}

\* texts with fewer than two decimal numbers
PlainTexts == {"", "hello world", "12", "-23.5613", "lat 10 lon 20", "1.", ".5,.6"}

\* short links, and the URLs a HEAD request on them may end at
ShortLinks == {"https://maps.app.goo.gl/abc", " maps.app.goo.gl/x?q=1.5,2.5 "}
RedirectTargets == {"https://www.google.com/maps/place/X/@-23.5613,-46.6565,17z",
                    "https://www.google.com/maps?q=200.25,300.5",
                    "https://consent.google.com/"}

\* links in which several patterns match after a number pair that validates
\* in no order
MixedLinks ==
    {"/data=200.25,300.5 ?q=1.5,2.5 @-46.6565,-23.5613,17z",
     "200.25,300.5 @95.5,10.5 ?q=1.5,2.5 !3d-23.5613!4d-46.6565",
     "200.25,300.5 !3d95.5!4d10.5 !2d-46.6565!3d-23.5613 ?q=1.5,2.5",
     "200.25,300.5 @95.5,10.5 !3d95.5!4d10.5 ?q=1.5,2.5",
     "200.25,300.5 @95.5,10.5 ?q=95.5,2.5"}

ExtractTexts ==
    {p \o sh[1] \o a \o sh[2] \o b \o sh[3] :
        p \in Prefixes, sh \in Shapes, a \in NumTexts, b \in NumTexts}
    \cup PlainTexts \cup ShortLinks \cup MixedLinks

\* arguments of extract_coords_from_text: strings, and one value that is no
\* string (a float cell, say)
ExtractInputs ==
    {[isstr |-> TRUE, s |-> x] : x \in ExtractTexts} \cup {[isstr |-> FALSE, s |-> ""]}

\* outcomes of requests.head(...): an exception (None) or the final URL
HeadOutcomes == {None} \cup {Some(u) : u \in RedirectTargets}

InitExtract ==
    /\ op = "init"
    /\ text \in ExtractInputs
    /\ text_cleaned = ""
    /\ coords = None
    /\ ResolverIdle
    /\ OfflineIdle
    /\ SessionIdle
    /\ CallIdle
    /\ OnlineIdle
    /\ ProcIdle

\* one call of extract_coords_from_text(text)
Extract ==
    /\ op = "init"
    /\ \E head \in HeadOutcomes :
          /\ (text.isstr /\ Contains(Strip(text.s), ShortLinkDomain)) \/ head = None
          /\ text_cleaned' = IF text.isstr THEN StripDecor(CleanedText(text.s, head)) ELSE ""
          /\ coords' = extract_coords_from_text(text, head)
    /\ op' = "extract"
    /\ UNCHANGED <<text, resolverVars, offlineVars, sessionVars, callVars, onlineVars, procVars>>

NextExtract == Extract

SpecExtract == InitExtract /\ [][NextExtract]_vars

-----------------------------------------------------------------------------
(* Claims about the extractor, checked under SpecExtract *)

\* C6 (as claimed): on a text holding a directions fragment !2d{lon}!3d{lat}
\* whose (lat, lon) is a valid coordinate, extract returns the !3d value as
\* latitude and the !2d value as longitude; "!2d-46.6565!3d-23.5613" gives
\* (-23.5613, -46.6565).
C6_DirectionsFragment ==
    op = "extract" /\ text.isstr =>
        LET p == SearchPair(text_cleaned, "!2d", "!3d")
        IN /\ (p # <<>> /\ _validate_coordinates(ToFloat(p[2]), ToFloat(p[1])))
                => coords = Some(<<ToFloat(p[2]), ToFloat(p[1])>>)
           /\ text.s = "!2d-46.6565!3d-23.5613!4m2"
                => coords = Some(<<0 - 235613 * Pow10(FracDigits - 4),
                                   0 - 466565 * Pow10(FracDigits - 4)>>)

\* C7: when the stripped text holds two or more decimal numbers, the first
\* two (c1, c2) decide: (c1, c2) is returned if it validates, else (c2, c1)
\* if that validates; "-23.5613,-46.6565" gives (-23.5613, -46.6565).
C7_FirstTwoNumbers ==
    op = "extract" /\ text.isstr =>
        LET numbers == FindNumbers(text_cleaned)
            c1 == ToFloat(numbers[1])
            c2 == ToFloat(numbers[2])
        IN /\ Len(numbers) >= 2 /\ _validate_coordinates(c1, c2)
                => coords = Some(<<c1, c2>>)
           /\ Len(numbers) >= 2 /\ ~_validate_coordinates(c1, c2)
              /\ _validate_coordinates(c2, c1)
                => coords = Some(<<c2, c1>>)
           /\ text.s = "-23.5613,-46.6565"
                => coords = Some(<<0 - 235613 * Pow10(FracDigits - 4),
                                   0 - 466565 * Pow10(FracDigits - 4)>>)

\* C7 witness: the claim's example has been extracted, and so has a text whose
\* first number is no latitude, answered in the second order
C7_Witness ==
    /\ op = "extract" /\ text.isstr
    /\ text.s = "-120.5,-23.5613"
    /\ coords = Some(<<ToFloat("-23.5613"), ToFloat("-120.5")>>)

\* C8: extract returns None or a complete (lat, lon) pair that passes the
\* validator, whichever strategy produced it.
C8_ResolvedOrNone ==
    op = "extract" =>
        \/ coords = None
        \/ /\ coords.some
           /\ Len(coords.val) = 2
           /\ coords.val[1] \in Int /\ coords.val[2] \in Int
           /\ -90 * Scale <= coords.val[1] /\ coords.val[1] <= 90 * Scale
           /\ -180 * Scale <= coords.val[2] /\ coords.val[2] <= 180 * Scale

\* C8 witness: a pair was returned by a link pattern after the number scan
\* had found two numbers and rejected them
C8_Witness ==
    /\ op = "extract" /\ text.isstr
    /\ Len(FindNumbers(text_cleaned)) >= 2
    /\ NumberScan(text_cleaned) = None
    /\ coords.some

\* C17: the link patterns decide only when the number scan returned no pair,
\* and then in the order "@lat,lon", the directions markers (matches in text
\* order), "?q=lat,lon"; the first of them whose pair validates is the result.
C17_PatternPriority ==
    op = "extract" /\ text.isstr =>
        LET scan == NumberScan(text_cleaned)
            at == SearchPair(text_cleaned, "@", ",")
            at_ok == at # <<>> /\ _validate_coordinates(ToFloat(at[1]), ToFloat(at[2]))
            dir_match == FindDir(text_cleaned)
            dir_ok == {k \in 1..Len(dir_match) : DirPair(dir_match[k]).some}
            first_dir == CHOOSE k \in dir_ok : \A j \in dir_ok : k <= j
            q == SearchPair(text_cleaned, "?q=", ",")
            q_ok == q # <<>> /\ _validate_coordinates(ToFloat(q[1]), ToFloat(q[2]))
        IN /\ scan.some => coords = scan
           /\ ~scan.some /\ at_ok
                => coords = Some(<<ToFloat(at[1]), ToFloat(at[2])>>)
           /\ ~scan.some /\ ~at_ok /\ dir_ok # {}
                => coords = DirPair(dir_match[first_dir])
           /\ ~scan.some /\ ~at_ok /\ dir_ok = {} /\ q_ok
                => coords = Some(<<ToFloat(q[1]), ToFloat(q[2])>>)

\* C17 witness: after a number pair that validates in no order, the second
\* directions match was returned, the first one failing validation, although
\* a "?q=" pair is present and validates
C17_Witness ==
    /\ op = "extract" /\ text.isstr
    /\ NumberScan(text_cleaned) = None
    /\ SearchPair(text_cleaned, "@", ",") = <<>>
    /\ Len(FindDir(text_cleaned)) = 2
    /\ DirPair(FindDir(text_cleaned)[1]) = None
    /\ MarkerPair(text_cleaned, "?q=").some
    /\ coords = DirPair(FindDir(text_cleaned)[2])
    /\ coords # MarkerPair(text_cleaned, "?q=")

\* C18: extract returns None for an input that is no string, for a text with
\* fewer than two decimal numbers ("hello world"), and for a text in which no
\* strategy finds a pair that validates.
C18_UnresolvedIsNone ==
    op = "extract" =>
        LET numbers == FindNumbers(text_cleaned)
            at == SearchPair(text_cleaned, "@", ",")
            dir_match == FindDir(text_cleaned)
            q == SearchPair(text_cleaned, "?q=", ",")
            scan_fails ==
                \/ Len(numbers) < 2
                \/ /\ ~_validate_coordinates(ToFloat(numbers[1]), ToFloat(numbers[2]))
                   /\ ~_validate_coordinates(ToFloat(numbers[2]), ToFloat(numbers[1]))
            at_fails ==
                at = <<>> \/ ~_validate_coordinates(ToFloat(at[1]), ToFloat(at[2]))
            dir_fails == \A k \in 1..Len(dir_match) : ~DirPair(dir_match[k]).some
            q_fails ==
                q = <<>> \/ ~_validate_coordinates(ToFloat(q[1]), ToFloat(q[2]))
        IN /\ ~text.isstr => coords = None
           /\ text.isstr /\ Len(numbers) < 2 => coords = None
           /\ text.isstr /\ scan_fails /\ at_fails /\ dir_fails /\ q_fails
                => coords = None
           /\ text.isstr /\ text.s = "hello world" => coords = None

\* C18 witness: None was returned for a text whose number pair, "@" pair and
\* "?q=" pair were all found and all rejected by the validator
C18_Witness ==
    /\ op = "extract" /\ text.isstr
    /\ Len(FindNumbers(text_cleaned)) >= 2
    /\ SearchPair(text_cleaned, "@", ",") # <<>>
    /\ SearchPair(text_cleaned, "?q=", ",") # <<>>
    /\ coords = None

-----------------------------------------------------------------------------
(* ortools_optimizer (src/optimizer.py) *)

\* the sequences that list every element of S exactly once
Perms(S) ==
    {p \in [1..Cardinality(S) -> S] : \A a, b \in 1..Cardinality(S) : a # b => p[a] # p[b]}

\* RoutingIndexManager(num_locations, 1, [start_node], [end_node]): the nodes
\* the vehicle has to visit between its start and its end are the locations
\* that are neither
Intermediate_end_not_excluded(num_locations, start, end) ==
    {i \in 0..(num_locations - 1) : i # start}

Intermediate(num_locations, start, end) ==
    {i \in 0..(num_locations - 1) : i # start /\ i # end}

\* what routing.SolveWithParameters can return: None when the search finds
\* nothing within its time limit, else an assignment, which chains the start
\* through every intermediate node once, in some order, to the end
Solutions(num_locations, start, end) ==
    {None} \cup {Some(p) : p \in Perms(Intermediate(num_locations, start, end))}

\* lines 69-77 without the append of line 77
RouteIndices_end_not_appended(start, order, end) == <<start>> \o order

\* lines 69-77: the nodes from routing.Start(0) along NextVar, then the end
\* node, which the loop leaves out
RouteIndices(start, order, end) == <<start>> \o order \o <<end>>

\* df.iloc[indices].reset_index(drop=True)
Iloc(rows, indices) == [k \in 1..Len(indices) |-> rows[indices[k] + 1]]

\* route_indices when ortools_optimizer returns, <<>> when it never built it
RouteOf(rows, start, end, sol) ==
    IF Len(rows) > 2 /\ sol.some THEN RouteIndices(start, sol.val, end) ELSE <<>>

\* ortools_optimizer returning an empty table when the solver finds nothing
ortools_optimizer_empty_without_solution(rows, start, end, sol) ==
    IF Len(rows) <= 2 THEN rows
    ELSE IF sol.some THEN Iloc(rows, RouteIndices(start, sol.val, end))
    ELSE <<>>

\* the return value; sol is what the solver returns if it is called
ortools_optimizer(rows, start, end, sol) ==
    IF Len(rows) <= 2 THEN rows
    ELSE IF sol.some THEN Iloc(rows, RouteIndices(start, sol.val, end))
    ELSE rows

\* largest number of rows of an input of ortools_optimizer
MaxStops == 4

PointA == <<ToFloat("-23.5613"), ToFloat("-46.6565")>>
PointB == <<ToFloat("-46.6565"), ToFloat("-23.5613")>>

RECURSIVE SeqsUpTo(_, _)
SeqsUpTo(S, n) ==
    IF n = 0 THEN {<<>>}
    ELSE SeqsUpTo(S, n - 1) \cup {Append(q, x) : q \in {r \in SeqsUpTo(S, n - 1) : Len(r) = n - 1}, x \in S}

\* the row indices a caller can pass as start_node or end_node: app.py passes
\* 0 and len - 1, or two rows picked from the table
NodeChoices(rows) == IF Len(rows) = 0 THEN {0} ELSE 0..(Len(rows) - 1)

InitOffline ==
    /\ op = "init"
    /\ df \in SeqsUpTo({PointA, PointB}, MaxStops)
    /\ start_node \in NodeChoices(df)
    /\ end_node \in NodeChoices(df)
    /\ solver_calls = 0
    /\ solution = None
    /\ route_indices = <<>>
    /\ optimized_df = <<>>
    /\ ExtractIdle
    /\ ResolverIdle
    /\ SessionIdle
    /\ CallIdle
    /\ OnlineIdle
    /\ ProcIdle

\* SolverInvoked with the early return of lines 26-28 left out
SolverInvoked_for_any_length(rows) == TRUE

\* lines 26-28: routing.SolveWithParameters is reached only past the early
\* return for at most 2 rows
SolverInvoked(rows) == Len(rows) > 2

\* one call ortools_optimizer(df, start_node, end_node)
Optimize ==
    /\ op = "init"
    /\ \E sol \in (IF SolverInvoked(df) THEN Solutions(Len(df), start_node, end_node)
                   ELSE {None}) :
          /\ solution' = sol
          /\ route_indices' = RouteOf(df, start_node, end_node, sol)
          /\ optimized_df' = ortools_optimizer(df, start_node, end_node, sol)
    /\ solver_calls' = IF SolverInvoked(df) THEN 1 ELSE 0
    /\ op' = "optimize"
    /\ UNCHANGED <<df, start_node, end_node, extractVars, resolverVars, sessionVars, callVars, onlineVars, procVars>>

NextOffline == Optimize

SpecOffline == InitOffline /\ [][NextOffline]_vars

\* how many times node i occurs in route
Occurrences(route, i) == Cardinality({k \in DOMAIN route : route[k] = i})

\* the call returned from the branch that found a solution on n > 2 rows
SolvedRoute == op = "optimize" /\ Len(df) > 2 /\ solution.some

\* C3 as stated: for n > 2 rows and any start and end, equal ones included,
\* a solve that found a solution returns exactly n rows, every input index
\* once, the start row first and the end row last
C3_PermutationOfN ==
    SolvedRoute =>
        /\ Len(optimized_df) = Len(df)
        /\ \A i \in 0..(Len(df) - 1) : Occurrences(route_indices, i) = 1
        /\ route_indices[1] = start_node
        /\ route_indices[Len(route_indices)] = end_node

\* C3: a solve that found a solution on n > 2 rows returns the rows at
\* route_indices, which starts with start_node and ends with end_node; with
\* start_node # end_node it has n rows, every input index exactly once; with
\* start_node = end_node it has n + 1 rows, the shared row being first and last
C3_RouteShape ==
    SolvedRoute =>
        /\ optimized_df = Iloc(df, route_indices)
        /\ route_indices[1] = start_node
        /\ route_indices[Len(route_indices)] = end_node
        /\ start_node # end_node =>
              /\ Len(optimized_df) = Len(df)
              /\ \A i \in 0..(Len(df) - 1) : Occurrences(route_indices, i) = 1
        /\ start_node = end_node => Len(optimized_df) = Len(df) + 1

C3_Witness ==
    /\ SolvedRoute
    /\ Len(df) = 4
    /\ start_node = 2
    /\ end_node = 0
    /\ route_indices = <<2, 3, 1, 0>>

\* C4 as stated: every offline solve with start_node = end_node on n > 2 rows
\* returns a route that begins and ends with the shared row, which is in it
\* exactly twice, every other row being in it exactly once
C4_RoundTripAlways ==
    (op = "optimize" /\ Len(df) > 2 /\ start_node = end_node) =>
        /\ Len(optimized_df) = Len(df) + 1
        /\ optimized_df[1] = df[start_node + 1]
        /\ optimized_df[Len(optimized_df)] = df[start_node + 1]

\* C4: when the solver finds a solution for start_node = end_node on n > 2
\* rows, the route begins and ends with the shared node, which is in it
\* exactly twice, and every other node is in it exactly once
C4_RoundTripWhenSolved ==
    (SolvedRoute /\ start_node = end_node) =>
        /\ route_indices[1] = start_node
        /\ route_indices[Len(route_indices)] = start_node
        /\ Occurrences(route_indices, start_node) = 2
        /\ \A i \in 0..(Len(df) - 1) : i # start_node => Occurrences(route_indices, i) = 1
        /\ optimized_df = Iloc(df, route_indices)

C4_Witness ==
    /\ SolvedRoute
    /\ Len(df) = 3
    /\ start_node = 1
    /\ end_node = 1
    /\ route_indices = <<1, 2, 0, 1>>

\* C19: for at most 2 rows and any start and end, the solve returns the input
\* as it is, same rows in the same order, and never calls the solver
C19_IdentityUpToTwo ==
    (op = "optimize" /\ Len(df) <= 2) =>
        /\ optimized_df = df
        /\ solver_calls = 0
        /\ route_indices = <<>>

C19_Witness ==
    /\ op = "optimize"
    /\ df = <<PointA, PointB>>
    /\ start_node = 1
    /\ end_node = 0
    /\ optimized_df = <<PointA, PointB>>

\* C20: when the solver is called and finds no solution, the solve returns
\* the input rows in their input order; what the caller gets is that table
C20_InputOrderWithoutSolution ==
    (op = "optimize" /\ solver_calls = 1 /\ ~solution.some) =>
        /\ optimized_df = df
        /\ route_indices = <<>>

C20_Witness ==
    /\ op = "optimize"
    /\ solver_calls = 1
    /\ ~solution.some
    /\ df = <<PointB, PointA, PointA>>
    /\ start_node = 2
    /\ optimized_df = <<PointB, PointA, PointA>>

-----------------------------------------------------------------------------
(* Tables and bulk cleaning (src/data_handler.py) *)

(* A parsed table is [columns, rows]: the column names and, for every row,   *)
(* one cell text per column, "" being a missing cell (NaN).  A cleaned table *)
(* is kept as the sequence of its rows' <<Latitude, Longitude>>; the other   *)
(* columns (Nome, Link, Google Maps) are not modelled.                       *)

HasColumn(columns, name) == \E i \in DOMAIN columns : columns[i] = name
ColumnIndex(columns, name) == CHOOSE i \in DOMAIN columns : columns[i] = name

\* s is a decimal literal: an optional "-", then digits with an optional
\* fraction, or a fraction alone; k is the index after the integer digits.
\* Every other text the specifications use is one neither float() nor
\* pd.to_numeric accepts.
IsDecimalInt(s, i0, k) ==
    \/ k > i0 /\ k = Len(s) + 1
    \/ /\ k <= Len(s)
       /\ Char(s, k) = "."
       /\ DigitsEnd(s, k + 1) = Len(s) + 1
       /\ (k > i0 \/ k < Len(s))
IsDecimalFrom(s, i0) == IsDecimalInt(s, i0, DigitsEnd(s, i0))
IsDecimal(s) == Len(s) > 0 /\ IsDecimalFrom(s, IF Char(s, 1) = "-" THEN 2 ELSE 1)

\* pd.to_numeric(cell, errors='coerce'), NaN being None
ToNumeric(cell) == IF IsDecimal(cell) THEN Some(ToFloat(cell)) ELSE None

\* lines 105-106: the Latitude and Longitude of every row, made numeric
NumericCoords(rows, lat_i, lon_i) ==
    [k \in DOMAIN rows |-> <<ToNumeric(rows[k][lat_i]), ToNumeric(rows[k][lon_i])>>]

\* KeptRow keeping every numeric pair
KeptRow_unvalidated(lat, lon) ==
    IF lat.some /\ lon.some THEN <<<<lat.val, lon.val>>>> ELSE <<>>

\* lines 107-113 for one row: dropped when a coordinate is NaN or the pair
\* does not validate
KeptRow(lat, lon) ==
    IF lat.some /\ lon.some /\ _validate_coordinates(lat.val, lon.val)
    THEN <<<<lat.val, lon.val>>>>
    ELSE <<>>

\* lines 107-113: the rows that stay, in their order
RECURSIVE DropInvalid(_)
DropInvalid(cs) ==
    IF Len(cs) = 0 THEN <<>>
    ELSE KeptRow(Head(cs)[1], Head(cs)[2]) \o DropInvalid(Tail(cs))

clean_data(table) ==
    IF ~HasColumn(table.columns, "Latitude") \/ ~HasColumn(table.columns, "Longitude")
    THEN <<>>
    ELSE DropInvalid(NumericCoords(table.rows,
                                   ColumnIndex(table.columns, "Latitude"),
                                   ColumnIndex(table.columns, "Longitude")))

\* the dict a process_* function returns
Result(status, data) == [status |-> status, data |-> data]

\* lines 147-150
ResultOfCleaned(df_cleaned) ==
    IF Len(df_cleaned) = 0 THEN Result("error", <<>>) ELSE Result("success", df_cleaned)

\* lines 142-150; columns is df_std.columns
ResultOfStandardized(df_raw, columns) ==
    IF ~HasColumn(columns, "Latitude") \/ ~HasColumn(columns, "Longitude")
    THEN Result("manual_mapping_required", df_raw)
    ELSE ResultOfCleaned(clean_data([columns |-> columns, rows |-> df_raw.rows]))

\* process_uploaded_file for a .csv or .xlsx file that parses to df_raw
process_uploaded_file(df_raw) ==
    IF Len(df_raw.rows) = 0 THEN Result("error", <<>>)
    ELSE ResultOfStandardized(df_raw, _auto_detect_and_standardize_columns(df_raw.columns))

-----------------------------------------------------------------------------
(* _validate_coordinates on Python values (src/data_handler.py) *)

(* A Python value is [kind, s, v]: a finite number (kind "float", v in      *)
(* units of 10^-FracDigits), the floats nan, inf and -inf, a str s, or      *)
(* None.  [kind |-> "raised", s |-> e] stands for the exception e.          *)
PyNum(v) == [kind |-> "float", s |-> "", v |-> v]
PyStr(s) == [kind |-> "str", s |-> s, v |-> 0]
PyNone == [kind |-> "none", s |-> "", v |-> 0]
PyNaN == [kind |-> "nan", s |-> "", v |-> 0]
PyInf == [kind |-> "inf", s |-> "", v |-> 0]
PyNegInf == [kind |-> "-inf", s |-> "", v |-> 0]
Raised(e) == [kind |-> "raised", s |-> e, v |-> 0]

\* float(s) for a str s already stripped of blanks and lowered: a decimal
\* literal, one of the spellings of nan and the infinities, else ValueError.
\* (Exponents, "+" signs and "_" separators do not occur in the inputs.)
FloatOfLowered(stripped, lowered) ==
    IF IsDecimal(stripped) THEN PyNum(ToFloat(stripped))
    ELSE IF lowered \in {"nan", "+nan", "-nan"} THEN PyNaN
    ELSE IF lowered \in {"inf", "+inf", "infinity", "+infinity"} THEN PyInf
    ELSE IF lowered \in {"-inf", "-infinity"} THEN PyNegInf
    ELSE Raised("ValueError")
FloatOfStripped(stripped) == FloatOfLowered(stripped, Lower(stripped))

\* float(x): a float is returned as it is, a str is parsed, None raises
\* TypeError
FloatOf(x) ==
    IF x.kind = "str" THEN FloatOfStripped(Strip(x.s))
    ELSE IF x.kind = "none" THEN Raised("TypeError")
    ELSE x

\* -bound <= f <= bound on a float f; every comparison with nan is false
InRange(f, bound) ==
    /\ f.kind = "float"
    /\ 0 - bound * Scale <= f.v
    /\ f.v <= bound * Scale

\* what a call gives back: the value it returned (raised = ""), or the
\* exception that left it
Returned(value) == [raised |-> "", value |-> value]
Escaped(e) == [raised |-> e, value |-> FALSE]

\* Caught with a handler for ValueError alone
Caught_value_error_only(f) ==
    IF f.s \in {"ValueError"} THEN Returned(FALSE) ELSE Escaped(f.s)

\* lines 97-98: except (ValueError, TypeError): return False
Caught(f) ==
    IF f.s \in {"ValueError", "TypeError"} THEN Returned(FALSE) ELSE Escaped(f.s)

\* line 96 from "and" on; f2 is float(longitude)
ValidateLon(f2) ==
    IF f2.kind = "raised" THEN Caught(f2) ELSE Returned(InRange(f2, 180))

\* line 96: f1 is float(latitude); longitude is converted only when the
\* latitude is in range
ValidateLat(f1, longitude) ==
    IF f1.kind = "raised" THEN Caught(f1)
    ELSE IF ~InRange(f1, 90) THEN Returned(FALSE)
    ELSE ValidateLon(FloatOf(longitude))

\* _validate_coordinates(latitude, longitude) on Python values
ValidateCall(latitude, longitude) == ValidateLat(FloatOf(latitude), longitude)

\* the numbers tried: the boundaries, their neighbours, and points inside
EdgeValues ==
    {90 * Scale, 0 - 90 * Scale, 90 * Scale + 1, 0 - 90 * Scale - 1,
     180 * Scale, 0 - 180 * Scale, 180 * Scale + 1, 0 - 180 * Scale - 1,
     0, ToFloat("-23.5613")}

EdgeTexts == {"45.0", " 90 ", "-180", "91", "abc", "", "-23,5613", "nan", "Inf", "-infinity"}

PyValues ==
    {PyNum(v) : v \in EdgeValues} \cup {PyStr(x) : x \in EdgeTexts}
    \cup {PyNone, PyNaN, PyInf, PyNegInf}

InitValidate ==
    /\ op = "init"
    /\ args \in PyValues \X PyValues
    /\ returned = None
    /\ ExtractIdle
    /\ ResolverIdle
    /\ OfflineIdle
    /\ SessionIdle
    /\ OnlineIdle
    /\ ProcIdle

\* one call of _validate_coordinates(args[1], args[2])
Validate ==
    /\ op = "init"
    /\ returned' = Some(ValidateCall(args[1], args[2]))
    /\ op' = "validate"
    /\ UNCHANGED <<args, extractVars, resolverVars, offlineVars, sessionVars, onlineVars, procVars>>

NextValidate == Validate

SpecValidate == InitValidate /\ [][NextValidate]_vars

\* x converts to a finite number / that number
ConvertsFinite(x) == x.kind = "float" \/ (x.kind = "str" /\ IsDecimal(Strip(x.s)))
FiniteOf(x) == IF x.kind = "float" THEN x.v ELSE ToFloat(Strip(x.s))

\* C12: the validator returns true exactly when both values convert to
\* finite numbers with -90 <= lat <= 90 and -180 <= lon <= 180, the
\* boundaries included; a value that does not convert, nan and the
\* infinities give false, and no exception leaves the call.
C12_ValidateIffInRange ==
    op = "validate" =>
        /\ returned.val.raised = ""
        /\ returned.val.value <=>
              /\ ConvertsFinite(args[1]) /\ ConvertsFinite(args[2])
              /\ 0 - 90 * Scale <= FiniteOf(args[1]) /\ FiniteOf(args[1]) <= 90 * Scale
              /\ 0 - 180 * Scale <= FiniteOf(args[2]) /\ FiniteOf(args[2]) <= 180 * Scale
        /\ (args[1].kind = "float" /\ args[2].kind = "float")
              => (returned.val.value <=> _validate_coordinates(args[1].v, args[2].v))
        /\ (args[1].v \in {90 * Scale, 0 - 90 * Scale} /\ args[1].kind = "float"
            /\ args[2].v \in {180 * Scale, 0 - 180 * Scale} /\ args[2].kind = "float")
              => returned.val.value

\* C12 witness: the pair (-90, 180) on the boundaries was accepted
C12_Witness ==
    /\ op = "validate"
    /\ args = <<PyNum(0 - 90 * Scale), PyNum(180 * Scale)>>
    /\ returned = Some(Returned(TRUE))

-----------------------------------------------------------------------------
(* One call of clean_data *)

MaxCleanRows == 2

\* cells of a coordinate column: numbers in and out of range, a text that is
\* no number, a missing cell
CleanCells == {"-23.5613", "-46.6565", "91", "abc", ""}

\* column layouts: both coordinate columns in either order, and one of them
\* missing
CleanColumns ==
    {<<"Latitude", "Longitude">>, <<"Longitude", "Latitude">>,
     <<"Latitude", "Nome">>, <<"Nome", "Longitude">>}

CleanRows == {<<a, b>> : a \in CleanCells, b \in CleanCells}

CleanTables ==
    {[columns |-> c, rows |-> r] : c \in CleanColumns, r \in SeqsUpTo(CleanRows, MaxCleanRows)}

InitClean ==
    /\ op = "init"
    /\ args \in {<<t>> : t \in CleanTables}
    /\ returned = None
    /\ ExtractIdle
    /\ ResolverIdle
    /\ OfflineIdle
    /\ SessionIdle
    /\ OnlineIdle
    /\ ProcIdle

\* one call of clean_data(args[1])
Clean ==
    /\ op = "init"
    /\ returned' = Some(clean_data(args[1]))
    /\ op' = "clean_data"
    /\ UNCHANGED <<args, extractVars, resolverVars, offlineVars, sessionVars, onlineVars, procVars>>

NextClean == Clean

SpecClean == InitClean /\ [][NextClean]_vars

\* C13: on a table with both coordinate columns clean_data returns, in their
\* order, exactly the rows whose two coordinates are numbers and validate;
\* on a table lacking one of the columns it returns an empty table.
C13_CleanKeepsExactlyValid ==
    op = "clean_data" =>
        LET table == args[1]
            lat_i == ColumnIndex(table.columns, "Latitude")
            lon_i == ColumnIndex(table.columns, "Longitude")
            IsValidRow(row) ==
                /\ IsDecimal(row[lat_i]) /\ IsDecimal(row[lon_i])
                /\ 0 - 90 * Scale <= ToFloat(row[lat_i]) /\ ToFloat(row[lat_i]) <= 90 * Scale
                /\ 0 - 180 * Scale <= ToFloat(row[lon_i]) /\ ToFloat(row[lon_i]) <= 180 * Scale
            valid_rows == SelectSeq(table.rows, IsValidRow)
        IN IF HasColumn(table.columns, "Latitude") /\ HasColumn(table.columns, "Longitude")
           THEN returned.val =
                    [k \in 1..Len(valid_rows) |->
                        <<ToFloat(valid_rows[k][lat_i]), ToFloat(valid_rows[k][lon_i])>>]
           ELSE returned.val = <<>>

\* C13 witness: of two rows the first, out of range, was dropped and the
\* second kept
C13_Witness ==
    /\ op = "clean_data"
    /\ args[1].columns = <<"Latitude", "Longitude">>
    /\ args[1].rows = <<<<"91", "-46.6565">>, <<"-23.5613", "-46.6565">>>>
    /\ returned = Some(<<<<ToFloat("-23.5613"), ToFloat("-46.6565")>>>>)

-----------------------------------------------------------------------------
(* optimize_route_online (src/services.py) *)

\* [lon, lat] of a row (line 32)
LonLat(p) == <<p[2], p[1]>>

\* JobIds leaving only the start row out
JobIds_end_not_excluded(rows, start, end) ==
    SelectSeq([k \in 1..Len(rows) |-> k - 1], LAMBDA idx : idx # start)

\* lines 36-40: one job per row that is neither start nor end, in row order
JobIds(rows, start, end) ==
    SelectSeq([k \in 1..Len(rows) |-> k - 1], LAMBDA idx : idx # start /\ idx # end)

JobsOf(rows, ids) ==
    [k \in DOMAIN ids |-> [id |-> ids[k], location |-> LonLat(rows[ids[k] + 1])]]

Jobs(rows, start, end) == JobsOf(rows, JobIds(rows, start, end))

\* the POST of line 53
OptimizationRequest(rows, start, end) ==
    [endpoint |-> "optimization",
     jobs |-> Jobs(rows, start, end),
     vehicle |-> <<LonLat(rows[start + 1]), LonLat(rows[end + 1])>>,
     coordinates |-> <<>>]

\* the POST of lines 68-69
DirectionsRequest(ordered_df) ==
    [endpoint |-> "directions",
     jobs |-> <<>>,
     vehicle |-> <<>>,
     coordinates |-> [k \in DOMAIN ordered_df |-> LonLat(ordered_df[k])]]

\* a step of the optimization response; id is read for jobs only
Step(type, id) == [type |-> type, id |-> id]

\* routes[0].steps of a well-formed response: the vehicle's start, the jobs
\* the service assigned, in its order, the vehicle's end
StepLists(job_ids) ==
    {<<Step("start", 0 - 1)>> \o [k \in DOMAIN p |-> Step("job", p[k])] \o <<Step("end", 0 - 1)>> :
        p \in UNION {Perms(J) : J \in SUBSET job_ids}}

\* what a POST can come to: requests raises for the connection or for the
\* HTTP status, the JSON lacks a key the code reads, or the answer is usable
FailureKinds == {"connection_error", "http_error", "malformed"}

OptimizationResponses(job_ids) ==
    {[kind |-> f, steps |-> <<>>] : f \in FailureKinds}
    \cup {[kind |-> "ok", steps |-> st] : st \in StepLists(job_ids)}

DirectionsResponses == FailureKinds \cup {"ok"}

\* line 60
IdsOf(job_steps) == [k \in DOMAIN job_steps |-> job_steps[k].id]

OrderedJobIndices(steps) == IdsOf(SelectSeq(steps, LAMBDA st : st.type = "job"))

\* line 63
FinalRouteIndices(start, steps, end) == <<start>> \o OrderedJobIndices(steps) \o <<end>>

\* OrderedDf keeping the rows as they came
OrderedDf_input_order(rows, start, end, steps) == rows

\* lines 63-65
OrderedDf(rows, start, end, steps) == Iloc(rows, FinalRouteIndices(start, steps, end))

\* ResultOfDirections answering a failed directions request with the
\* stage-1 ordering
ResultOfDirections_partial(ordered_df, dir_response) ==
    IF dir_response = "ok"
    THEN Some([data |-> ordered_df, geojson |-> "dir_result",
               distance |-> "distance_km", duration |-> "duration_min"])
    ELSE Some([data |-> ordered_df, geojson |-> "", distance |-> "", duration |-> ""])

\* lines 70-82: the dict returned, or None from an except clause
ResultOfDirections(ordered_df, dir_response) ==
    IF dir_response = "ok"
    THEN Some([data |-> ordered_df, geojson |-> "dir_result",
               distance |-> "distance_km", duration |-> "duration_min"])
    ELSE None

\* lines 56-92 once the optimization response is usable
OnlineStageTwo(first_request, ordered_df, dir_response) ==
    [result |-> ResultOfDirections(ordered_df, dir_response),
     sent |-> <<first_request, DirectionsRequest(ordered_df)>>]

\* optimize_route_online(df, api_key, start_node, end_node): what it returns
\* and the requests it sent, for the given answers of the service
optimize_route_online(rows, start, end, opt_response, dir_response) ==
    IF opt_response.kind # "ok"
    THEN [result |-> None, sent |-> <<OptimizationRequest(rows, start, end)>>]
    ELSE OnlineStageTwo(OptimizationRequest(rows, start, end),
                        OrderedDf(rows, start, end, opt_response.steps),
                        dir_response)

-----------------------------------------------------------------------------
(* The working session (app.py) *)

(* processed_data and optimized_data hold the <<Latitude, Longitude>> of     *)
(* every row.  app.py passes each table it stores through                   *)
(* add_maps_link_column, which it imports from src/data_handler.py but which *)
(* that file does not define; by its name and its use it adds the           *)
(* "Google Maps" column, and it is taken to leave rows and coordinates as    *)
(* they are.  Edits made in the grid (line 562) are not modelled: every     *)
(* run of the script gets back from the grid the table it gave to it.       *)

\* largest number of rows the session's table is grown to by adding points
MaxPoints == 2

\* largest number of rows of a loaded file
MaxRows == 2

\* headers of loaded files: one the resolver recognises, one it does not
SessionHeaders == {<<"lat", "lng">>, <<"y", "x">>}

\* rows of loaded files: two valid points, a latitude out of range, a cell
\* that is no number, a missing cell, a cell holding a whole pair
RowTemplates ==
    {<<"-23.5613", "-46.6565">>, <<"-46.6565", "-23.5613">>, <<"91.5", "-46.6565">>,
     <<"abc", "-46.6565">>, <<"", "-46.6565">>, <<"-23.5613,-46.6565", "obs">>}

RawTables ==
    {[columns |-> h, rows |-> r] : h \in SessionHeaders, r \in SeqsUpTo(RowTemplates, MaxRows)}

\* what the user may have typed in the widgets of draw_add_point_section
LatFields == {"", "-23,5613", "91", "abc"}
LonFields == {"", "-46.6565"}
CombinedFields == {"", "-46.6565°, -23.5613°", "95.5, 200.25"}
TextInputs == {"@-23.5613,-46.6565", "Av. Paulista, 1578", "95.5, 200.25",
               "https://maps.app.goo.gl/abc"}

\* what geocode_address returns: None, or the first feature the geocoder
\* found, a place on the map
GeocodeOutcomes == {None, Some(PointB)}

\* initialize_session_state on a fresh session
InitSession ==
    /\ op = "init"
    /\ processed_data = None
    /\ optimized_data = None
    /\ raw_data_for_mapping = None
    /\ manual_mapping_required = FALSE
    /\ route_geojson = None
    /\ total_distance = None
    /\ total_duration = None
    /\ ORS_API_KEY \in {"", "key"}
    /\ message = "none"
    /\ requests = <<>>
    /\ ExtractIdle
    /\ ResolverIdle
    /\ OfflineIdle
    /\ CallIdle
    /\ OnlineIdle
    /\ ProcIdle

\* draw_main_content shows the loaders / the route screen (lines 454-517)
LoadScreen == ~manual_mapping_required /\ ~processed_data.some
RouteScreen == ~manual_mapping_required /\ processed_data.some

solveVars == <<optimized_data, route_geojson, total_distance, total_duration>>
mappingVars == <<raw_data_for_mapping, manual_mapping_required>>

\* handle_processed_result(result)
HandleProcessedResult(result) ==
    /\ processed_data' =
          IF result.status = "success" THEN Some(result.data)
          ELSE IF result.status = "manual_mapping_required" THEN processed_data
          ELSE None
    /\ manual_mapping_required' =
          IF result.status = "success" THEN FALSE
          ELSE IF result.status = "manual_mapping_required" THEN TRUE
          ELSE manual_mapping_required
    /\ raw_data_for_mapping' =
          IF result.status = "manual_mapping_required" THEN Some(result.data)
          ELSE raw_data_for_mapping
    /\ message' =
          IF result.status = "success" THEN "success"
          ELSE IF result.status = "manual_mapping_required" THEN "warning"
          ELSE "error"

\* a spreadsheet is uploaded (lines 471-474)
LoadFile ==
    /\ LoadScreen
    /\ \E df_raw \in RawTables : HandleProcessedResult(process_uploaded_file(df_raw))
    /\ requests' = <<>>
    /\ op' = "load"
    /\ UNCHANGED <<solveVars, ORS_API_KEY, extractVars, resolverVars, offlineVars, callVars, onlineVars, procVars>>

\* "Começar Rota Manual" (lines 489-491)
StartManualRoute ==
    /\ LoadScreen
    /\ processed_data' = Some(<<>>)
    /\ message' = "none"
    /\ requests' = <<>>
    /\ op' = "manual_route"
    /\ UNCHANGED <<solveVars, mappingVars, ORS_API_KEY, extractVars, resolverVars, offlineVars, callVars, onlineVars, procVars>>

\* df_mapped.columns after the rename of lines 413-416; rename_dict keeps one
\* target per column, the later assignment winning; "" is the selectbox's None
RenamedColumns(columns, lat_col, lon_col, name_col) ==
    [k \in DOMAIN columns |->
        IF name_col # "" /\ columns[k] = name_col THEN "Nome"
        ELSE IF columns[k] = lon_col THEN "Longitude"
        ELSE IF columns[k] = lat_col THEN "Latitude"
        ELSE columns[k]]

\* lines 419 and 424 for one cell: the Latitude and Longitude joined to its row
CoordsOfResult(r) == IF r.some THEN <<Some(r.val[1]), Some(r.val[2])>> ELSE <<None, None>>
CoordsOfCell(cell) ==
    IF cell = "" THEN <<None, None>>
    ELSE CoordsOfResult(extract_coords_from_text([isstr |-> TRUE, s |-> cell], None))

\* lines 419-425: the two columns joined to df_mapped
JoinedCoords(rows, col_i) == [k \in DOMAIN rows |-> CoordsOfCell(rows[k][col_i])]

\* lines 420-422 and 440: None when no cell of the column gave coordinates
CleanedOfJoined(joined) ==
    IF \A k \in DOMAIN joined : ~joined[k][1].some THEN None ELSE Some(DropInvalid(joined))

\* lines 410-440: df_cleaned, or None when the handler returns before line 440
MappedAndCleaned(df_raw, lat_col, lon_col, name_col, single_col) ==
    IF lat_col # "" /\ lon_col # ""
    THEN Some(clean_data([columns |-> RenamedColumns(df_raw.columns, lat_col, lon_col, name_col),
                          rows |-> df_raw.rows]))
    ELSE IF single_col # ""
    THEN CleanedOfJoined(JoinedCoords(df_raw.rows, ColumnIndex(df_raw.columns, single_col)))
    ELSE None

\* StoreMapped closing the mapping screen also when no point is valid
StoreMapped_leaves_screen(df_cleaned) ==
    IF df_cleaned.some /\ Len(df_cleaned.val) > 0
    THEN /\ processed_data' = df_cleaned
         /\ manual_mapping_required' = FALSE
         /\ raw_data_for_mapping' = None
         /\ message' = "success"
    ELSE /\ message' = "error"
         /\ manual_mapping_required' = FALSE
         /\ UNCHANGED <<processed_data, raw_data_for_mapping>>

\* lines 441-448
StoreMapped(df_cleaned) ==
    IF df_cleaned.some /\ Len(df_cleaned.val) > 0
    THEN /\ processed_data' = df_cleaned
         /\ manual_mapping_required' = FALSE
         /\ raw_data_for_mapping' = None
         /\ message' = "success"
    ELSE /\ message' = "error"
         /\ UNCHANGED <<processed_data, mappingVars>>

\* the selectboxes of the mapping screen: None or a column of the raw table
ColumnOptions(columns) == {""} \cup {columns[i] : i \in DOMAIN columns}

\* "Aplicar Mapeamento e Continuar" (lines 409-448)
ApplyManualMapping ==
    /\ manual_mapping_required
    /\ \E lat_col \in ColumnOptions(raw_data_for_mapping.val.columns),
          lon_col \in ColumnOptions(raw_data_for_mapping.val.columns),
          name_col \in ColumnOptions(raw_data_for_mapping.val.columns),
          single_col \in ColumnOptions(raw_data_for_mapping.val.columns) :
          StoreMapped(MappedAndCleaned(raw_data_for_mapping.val, lat_col, lon_col,
                                       name_col, single_col))
    /\ requests' = <<>>
    /\ op' = "mapping"
    /\ UNCHANGED <<solveVars, ORS_API_KEY, extractVars, resolverVars, offlineVars, callVars, onlineVars, procVars>>

\* df.drop(indices).reset_index(drop=True); indices are row positions from 0
RECURSIVE DropRows(_, _, _)
DropRows(rows, indices, k) ==
    IF k > Len(rows) THEN <<>>
    ELSE (IF (k - 1) \in indices THEN <<>> ELSE <<rows[k]>>) \o DropRows(rows, indices, k + 1)

\* "Apagar Pontos Selecionados" with some rows ticked (lines 565-571)
DeleteSelected ==
    /\ RouteScreen
    /\ \E selected \in (SUBSET (0..(Len(processed_data.val) - 1))) \ {{}} :
          processed_data' = Some(DropRows(processed_data.val, selected, 1))
    /\ message' = "success"
    /\ requests' = <<>>
    /\ op' = "delete"
    /\ UNCHANGED <<solveVars, mappingVars, ORS_API_KEY, extractVars, resolverVars, offlineVars, callVars, onlineVars, procVars>>

\* lines 219-223 and 266-269 when there is a point to add, the st.error
\* branches otherwise; shown is the kind of message of the branch taken
AppendPoint(point, shown) ==
    /\ processed_data' =
          IF point.some THEN Some(Append(processed_data.val, point.val)) ELSE processed_data
    /\ message' = shown

\* lines 208-215: the coordinates found in the text, else the geocoder's
\* answer, which is asked only when a key is configured
CoordsOfText(found, geocoded) ==
    IF found.some THEN found
    ELSE IF ORS_API_KEY = "" THEN None
    ELSE geocoded

PointOrError(point) == AppendPoint(point, IF point.some THEN "success" ELSE "error")

AddByTextWith(text_input, head, geocoded) ==
    /\ RouteScreen
    /\ Len(processed_data.val) < MaxPoints
    /\ Contains(Strip(text_input), ShortLinkDomain) \/ head = None
    /\ PointOrError(CoordsOfText(extract_coords_from_text([isstr |-> TRUE, s |-> text_input], head),
                                 geocoded))
    /\ requests' = <<>>
    /\ op' = "add_text"
    /\ UNCHANGED <<solveVars, mappingVars, ORS_API_KEY, extractVars, resolverVars, offlineVars, callVars, onlineVars, procVars>>

\* "Adicionar Ponto" with a text typed (lines 206-226)
AddByText ==
    \E text_input \in TextInputs, head \in HeadOutcomes, geocoded \in GeocodeOutcomes :
        AddByTextWith(text_input, head, geocoded)

\* str.replace(',', '.')
RECURSIVE ReplaceComma(_)
ReplaceComma(s) ==
    IF Len(s) = 0 THEN ""
    ELSE (IF Char(s, 1) = "," THEN "." ELSE Char(s, 1)) \o ReplaceComma(SubSeq(s, 2, Len(s)))

\* float(s): None stands for the ValueError
PyFloat(s) == IF IsDecimal(s) THEN Some(ToFloat(s)) ELSE None

\* lines 244-250: lat and lon are the two float() results
PointOfFloats(lat, lon) ==
    IF lat.some /\ lon.some THEN Some(<<lat.val, lon.val>>) ELSE None

\* lines 243-263: the point to add, or None with st.error or st.warning
PointOfFields(lat_sep, lon_sep, coords_combined) ==
    IF lat_sep # "" /\ lon_sep # ""
    THEN PointOfFloats(PyFloat(ReplaceComma(lat_sep)), PyFloat(ReplaceComma(lon_sep)))
    ELSE IF coords_combined # ""
    THEN extract_coords_from_text([isstr |-> TRUE, s |-> coords_combined], None)
    ELSE None

ShownForFields(lat_sep, lon_sep, coords_combined, point) ==
    IF point.some THEN "success"
    ELSE IF (lat_sep # "" /\ lon_sep # "") \/ coords_combined # "" THEN "error"
    ELSE "warning"

AddByCoordsWith(lat_sep, lon_sep, coords_combined) ==
    /\ RouteScreen
    /\ Len(processed_data.val) < MaxPoints
    /\ AppendPoint(PointOfFields(lat_sep, lon_sep, coords_combined),
                   ShownForFields(lat_sep, lon_sep, coords_combined,
                                  PointOfFields(lat_sep, lon_sep, coords_combined)))
    /\ requests' = <<>>
    /\ op' = "add_coords"
    /\ UNCHANGED <<solveVars, mappingVars, ORS_API_KEY, extractVars, resolverVars, offlineVars, callVars, onlineVars, procVars>>

\* "Adicionar por Coordenadas" (lines 240-270)
AddByCoords ==
    \E lat_sep \in LatFields, lon_sep \in LonFields, coords_combined \in CombinedFields :
        AddByCoordsWith(lat_sep, lon_sep, coords_combined)

\* lines 310-315
StoreOffline_keeps_geometry(optimized) ==
    /\ optimized_data' = Some(optimized)
    /\ message' = "success"
    /\ UNCHANGED <<route_geojson, total_distance, total_duration>>

StoreOffline(optimized) ==
    /\ optimized_data' = Some(optimized)
    /\ route_geojson' = None
    /\ total_distance' = None
    /\ total_duration' = None
    /\ message' = "success"

\* "Otimizar Rota (Offline)" (lines 307-317); start and end are row 0 and the
\* last row, or the two rows picked in the selectboxes (lines 286-300)
OfflineSolve ==
    /\ RouteScreen
    /\ IF Len(processed_data.val) > 1
       THEN \E start \in NodeChoices(processed_data.val), end \in NodeChoices(processed_data.val) :
               \E sol \in (IF Len(processed_data.val) <= 2 THEN {None}
                           ELSE Solutions(Len(processed_data.val), start, end)) :
                   StoreOffline(ortools_optimizer(processed_data.val, start, end, sol))
       ELSE /\ message' = "warning"
            /\ UNCHANGED solveVars
    /\ requests' = <<>>
    /\ op' = "offline"
    /\ UNCHANGED <<processed_data, mappingVars, ORS_API_KEY, extractVars, resolverVars, offlineVars, callVars, onlineVars, procVars>>

\* StoreOnline dropping the stored route when the solve failed
StoreOnline_clears_on_failure(outcome) ==
    /\ requests' = outcome.sent
    /\ IF outcome.result.some
       THEN /\ optimized_data' = Some(outcome.result.val.data)
            /\ route_geojson' = Some(outcome.result.val.geojson)
            /\ total_distance' = Some(outcome.result.val.distance)
            /\ total_duration' = Some(outcome.result.val.duration)
            /\ message' = "success"
       ELSE /\ message' = "error"
            /\ optimized_data' = None
            /\ UNCHANGED <<route_geojson, total_distance, total_duration>>

\* lines 324-331; outcome is what optimize_route_online returned and sent
StoreOnline(outcome) ==
    /\ requests' = outcome.sent
    /\ IF outcome.result.some
       THEN /\ optimized_data' = Some(outcome.result.val.data)
            /\ route_geojson' = Some(outcome.result.val.geojson)
            /\ total_distance' = Some(outcome.result.val.distance)
            /\ total_duration' = Some(outcome.result.val.duration)
            /\ message' = "success"
       ELSE /\ message' = "error"
            /\ UNCHANGED solveVars

\* "Otimizar Rota (Online)" (lines 320-333), disabled without an API key
OnlineSolve ==
    /\ RouteScreen
    /\ ORS_API_KEY # ""
    /\ IF Len(processed_data.val) > 1
       THEN \E start \in NodeChoices(processed_data.val), end \in NodeChoices(processed_data.val) :
               \E opt_response \in OptimizationResponses(
                                       Intermediate(Len(processed_data.val), start, end)) :
                   \E dir_response \in (IF opt_response.kind = "ok" THEN DirectionsResponses
                                        ELSE {"ok"}) :
                       StoreOnline(optimize_route_online(processed_data.val, start, end,
                                                         opt_response, dir_response))
       ELSE /\ message' = "warning"
            /\ requests' = <<>>
            /\ UNCHANGED solveVars
    /\ op' = "online"
    /\ UNCHANGED <<processed_data, mappingVars, ORS_API_KEY, extractVars, resolverVars, offlineVars, callVars, onlineVars, procVars>>

\* "Reiniciar Sessão": clear_session, then initialize_session_state on the rerun
ClearSession ==
    /\ processed_data' = None
    /\ optimized_data' = None
    /\ raw_data_for_mapping' = None
    /\ manual_mapping_required' = FALSE
    /\ route_geojson' = None
    /\ total_distance' = None
    /\ total_duration' = None
    /\ message' = "none"
    /\ requests' = <<>>
    /\ op' = "clear"
    /\ UNCHANGED <<ORS_API_KEY, extractVars, resolverVars, offlineVars, callVars, onlineVars, procVars>>

NextSession ==
    \/ LoadFile
    \/ StartManualRoute
    \/ ApplyManualMapping
    \/ DeleteSelected
    \/ AddByText
    \/ AddByCoords
    \/ OfflineSolve
    \/ OnlineSolve
    \/ ClearSession

SpecSession == InitSession /\ [][NextSession]_vars

\* every row of the session's table passes _validate_coordinates
AllValid(rows) == \A k \in DOMAIN rows : _validate_coordinates(rows[k][1], rows[k][2])

\* C1: whatever the session has done, every point of processed_data has its
\* latitude in [-90, 90] and its longitude in [-180, 180]
C1_StoredPointsValid == processed_data.some => AllValid(processed_data.val)

\* the separate fields are both filled and do not hold a valid point: one is
\* no number, or the pair is out of range
InvalidSeparate(lat_sep, lon_sep) ==
    /\ lat_sep # ""
    /\ lon_sep # ""
    /\ \/ ~PyFloat(ReplaceComma(lat_sep)).some
       \/ ~PyFloat(ReplaceComma(lon_sep)).some
       \/ ~_validate_coordinates(PyFloat(ReplaceComma(lat_sep)).val,
                                 PyFloat(ReplaceComma(lon_sep)).val)

\* C2: an append by the separate fields whose latitude or longitude is out of
\* range or no number shows an error and leaves processed_data as it was,
\* and the row an append handler adds is one that validates
C2_InvalidAppendRejected ==
    [][/\ \A lat_sep \in LatFields, lon_sep \in LonFields :
             (AddByCoordsWith(lat_sep, lon_sep, "") /\ InvalidSeparate(lat_sep, lon_sep))
                 => (message' = "error" /\ processed_data' = processed_data)
       /\ (op' \in {"add_text", "add_coords"} /\ processed_data' # processed_data)
             => (message' = "success"
                 /\ AllValid(<<processed_data'.val[Len(processed_data'.val)]>>))]_vars

\* the rows of rows that pass _validate_coordinates
ValidRows(rows) ==
    SelectSeq(rows, LAMBDA p : _validate_coordinates(p[1], p[2]))

\* every [lon, lat] a request carries is a valid point
RequestValid(request) ==
    /\ \A k \in DOMAIN request.jobs :
          _validate_coordinates(request.jobs[k].location[2], request.jobs[k].location[1])
    /\ \A k \in DOMAIN request.vehicle :
          _validate_coordinates(request.vehicle[k][2], request.vehicle[k][1])
    /\ \A k \in DOMAIN request.coordinates :
          _validate_coordinates(request.coordinates[k][2], request.coordinates[k][1])

\* C5: an online solve sends no point with an invalid coordinate, and sends
\* no request at all when fewer than 2 of its points are valid
C5_InvalidDroppedBeforeRequests ==
    (op = "online") =>
        /\ \A k \in DOMAIN requests : RequestValid(requests[k])
        /\ Len(ValidRows(processed_data.val)) < 2 => requests = <<>>

\* C23: the stored optimization result, when present, holds exactly the
\* points of the current processed_data, in some order.
C23_ResultMatchesPoints ==
    optimized_data.some =>
        /\ processed_data.some
        /\ Range(optimized_data.val) = Range(processed_data.val)

\* route_geojson, total_distance and total_duration are all set / all None
GeometrySet == route_geojson.some /\ total_distance.some /\ total_duration.some
GeometryUnset == route_geojson = None /\ total_distance = None /\ total_duration = None

\* C24: route_geojson, total_distance and total_duration are all None or all
\* set; a successful online solve sets the three, an offline solve and a
\* restart of the session reset them, and no other handler touches them.
C24_GeometryAllOrNone ==
    /\ [](GeometrySet \/ GeometryUnset)
    /\ [][/\ (op' = "online" /\ message' = "success") => GeometrySet'
          /\ (op' = "offline" /\ message' = "success") => GeometryUnset'
          /\ op' = "clear" => GeometryUnset'
          /\ ~(op' \in {"online", "offline"} /\ message' = "success") /\ op' # "clear"
                => UNCHANGED <<route_geojson, total_distance, total_duration>>]_vars

\* C24 witness: an online solve succeeded and stored its result with the
\* geometry, the distance and the duration
C24_Witness ==
    /\ op = "online"
    /\ message = "success"
    /\ optimized_data.some
    /\ GeometrySet

\* C25: an online solve that failed leaves optimized_data, route_geojson,
\* total_distance, total_duration and processed_data as they were; it shows
\* an error.
C25_FailedOnlineKeepsState ==
    [][(op' = "online" /\ message' = "error")
          => UNCHANGED <<optimized_data, route_geojson, total_distance, total_duration,
                         processed_data>>]_vars

\* C25 witness: an online solve failed at the directions request while the
\* result of an earlier online solve was stored, and the result is still there
C25_Witness ==
    /\ op = "online"
    /\ message = "error"
    /\ Len(requests) = 2
    /\ optimized_data.some
    /\ GeometrySet

\* the tables process_uploaded_file answers 'success' with: the cleaning of a
\* loaded table after column resolution
CleanedLoads ==
    {clean_data([columns |-> _auto_detect_and_standardize_columns(t.columns),
                 rows |-> t.rows]) : t \in RawTables}

\* C26: processed_data is assigned from a loaded table only with the
\* cleaned table; the raw table of a 'manual_mapping_required' result goes
\* to raw_data_for_mapping alone, which holds a table whenever
\* manual_mapping_required is true; a manual mapping without a valid point
\* leaves processed_data and the mapping screen as they were.
C26_RawTableNeverStored ==
    /\ [](manual_mapping_required =>
            (raw_data_for_mapping.some /\ raw_data_for_mapping.val \in RawTables))
    /\ [][/\ (op' = "load" /\ message' = "success")
                => (processed_data'.val \in CleanedLoads /\ AllValid(processed_data'.val))
          /\ (op' = "load" /\ message' = "warning")
                => (processed_data' = processed_data /\ manual_mapping_required')
          /\ (op' = "mapping" /\ message' = "success")
                => (Len(processed_data'.val) > 0 /\ AllValid(processed_data'.val))
          /\ (op' = "mapping" /\ message' = "error")
                => (UNCHANGED <<processed_data, raw_data_for_mapping>>
                    /\ manual_mapping_required')]_vars

\* C26 witness: a manual mapping found no valid point; the mapping screen is
\* still shown, with the raw table, and no table is stored
C26_Witness ==
    /\ op = "mapping"
    /\ message = "error"
    /\ manual_mapping_required
    /\ raw_data_for_mapping.some
    /\ processed_data = None

-----------------------------------------------------------------------------
(* process_uploaded_file, process_raw_text, process_drive_link after parsing *)
(* (src/data_handler.py)                                                     *)

\* lines 263-264: the non-missing cells of a column, and those of them the
\* extractor resolved
NonMissing(rows, col_i) == Cardinality({k \in DOMAIN rows : rows[k][col_i] # ""})
Extracted(joined) == Cardinality({k \in DOMAIN joined : joined[k][1].some})

\* line 264: coords_series.count() / len(df_std[col].dropna()) > 0.5; for a
\* column without cells the quotient is nan, which compares false
MostlyCoords(rows, col_i) ==
    2 * Extracted(JoinedCoords(rows, col_i)) > NonMissing(rows, col_i)

\* lines 262-273: the first column, in column order, that passes line 264; 0
\* when the loop ends without one
FallbackColumn(rows, columns) ==
    IF \E i \in DOMAIN columns : MostlyCoords(rows, i)
    THEN CHOOSE i \in DOMAIN columns :
            MostlyCoords(rows, i) /\ \A j \in 1..(i - 1) : ~MostlyCoords(rows, j)
    ELSE 0

\* line 266: df_std.join(coords_df) raises ValueError when df_std already has
\* a column named like one of coords_df
JoinRaises(columns) == HasColumn(columns, "Latitude") \/ HasColumn(columns, "Longitude")

\* lines 262-282 when df_std (columns) lacks a coordinate column; col_i is
\* FallbackColumn.  The ValueError of the join is caught on line 281.
RawTextFallback(df_raw, columns, col_i) ==
    IF col_i = 0 THEN Result("manual_mapping_required", df_raw)
    ELSE IF JoinRaises(columns) THEN Result("error", <<>>)
    ELSE Result("success", DropInvalid(JoinedCoords(df_raw.rows, col_i)))

\* lines 259-279; columns is df_std.columns
RawTextStandardized(df_raw, columns) ==
    IF HasColumn(columns, "Latitude") /\ HasColumn(columns, "Longitude")
    THEN Result("success", clean_data([columns |-> columns, rows |-> df_raw.rows]))
    ELSE RawTextFallback(df_raw, columns, FallbackColumn(df_raw.rows, columns))

\* process_raw_text for a text that parses to df_raw
process_raw_text(df_raw) ==
    IF Len(df_raw.rows) = 0 THEN Result("error", <<>>)
    ELSE RawTextStandardized(df_raw, _auto_detect_and_standardize_columns(df_raw.columns))

\* lines 231-234; joined is the extraction on the Link column.  When no link
\* gave coordinates coords_df has no column and coords_df[0] raises KeyError,
\* caught on line 244.
DriveLinkFallback(joined) ==
    IF Extracted(joined) = 0 THEN Result("error", <<>>)
    ELSE Result("success", DropInvalid(joined))

\* lines 228-240; columns is df_std.columns
DriveStandardized(df_raw, columns) ==
    IF HasColumn(columns, "Latitude") /\ HasColumn(columns, "Longitude")
    THEN Result("success", clean_data([columns |-> columns, rows |-> df_raw.rows]))
    ELSE IF HasColumn(columns, "Link")
    THEN DriveLinkFallback(JoinedCoords(df_raw.rows, ColumnIndex(columns, "Link")))
    ELSE Result("manual_mapping_required", df_raw)

\* process_drive_link for a link whose download parses to df_raw
process_drive_link(df_raw) ==
    IF Len(df_raw.rows) = 0 THEN Result("error", <<>>)
    ELSE DriveStandardized(df_raw, _auto_detect_and_standardize_columns(df_raw.columns))

\* process_mymaps_link for a map whose KML parses to df (lines 168-175);
\* _parse_kml_tree names the columns Nome, Latitude, Longitude itself
process_mymaps_link(df_kml) ==
    IF Len(df_kml.rows) = 0 THEN Result("error", <<>>)
    ELSE Result("success", clean_data(df_kml))

MaxParsedRows == 2

\* headers of the parsed tables: with both, one or no coordinate column, with
\* a column of coordinate pairs and with a column of links
ParsedColumns ==
    {<<"lat", "lng">>, <<"lat", "coords">>, <<"coords", "obs">>,
     <<"url", "obs">>, <<"lat", "url">>, <<"obs", "nome">>}

ParsedCells == {"-23.5613", "-23.5613,-46.6565", "abc", ""}

ParsedRows == {<<a, b>> : a \in ParsedCells, b \in ParsedCells}

ParsedTables ==
    {[columns |-> c, rows |-> r] :
        c \in ParsedColumns, r \in SeqsUpTo(ParsedRows, MaxParsedRows)}

\* the placemarks of a KML file: float(coords[1]), float(coords[0]) of each
KmlCells == {"-23.5613", "-46.6565", "95.5"}

KmlTables ==
    {[columns |-> <<"Latitude", "Longitude">>, rows |-> r] :
        r \in SeqsUpTo({<<a, b>> : a \in KmlCells, b \in KmlCells}, MaxParsedRows)}

\* args is <<the processing function, the table its input parsed to>>
InitProcess ==
    /\ op = "init"
    /\ args \in ({"process_uploaded_file", "process_raw_text", "process_drive_link"}
                    \X ParsedTables)
                \cup ({"process_mymaps_link"} \X KmlTables)
    /\ returned = None
    /\ ExtractIdle
    /\ ResolverIdle
    /\ OfflineIdle
    /\ SessionIdle
    /\ OnlineIdle
    /\ ProcIdle

ProcessUploadedFile ==
    /\ op = "init"
    /\ args[1] = "process_uploaded_file"
    /\ returned' = Some(process_uploaded_file(args[2]))
    /\ op' = "process"
    /\ UNCHANGED <<args, extractVars, resolverVars, offlineVars, sessionVars, onlineVars, procVars>>

ProcessRawText ==
    /\ op = "init"
    /\ args[1] = "process_raw_text"
    /\ returned' = Some(process_raw_text(args[2]))
    /\ op' = "process"
    /\ UNCHANGED <<args, extractVars, resolverVars, offlineVars, sessionVars, onlineVars, procVars>>

ProcessDriveLink ==
    /\ op = "init"
    /\ args[1] = "process_drive_link"
    /\ returned' = Some(process_drive_link(args[2]))
    /\ op' = "process"
    /\ UNCHANGED <<args, extractVars, resolverVars, offlineVars, sessionVars, onlineVars, procVars>>

ProcessMyMapsLink ==
    /\ op = "init"
    /\ args[1] = "process_mymaps_link"
    /\ returned' = Some(process_mymaps_link(args[2]))
    /\ op' = "process"
    /\ UNCHANGED <<args, extractVars, resolverVars, offlineVars, sessionVars, onlineVars, procVars>>

NextProcess ==
    \/ ProcessUploadedFile
    \/ ProcessRawText
    \/ ProcessDriveLink
    \/ ProcessMyMapsLink

SpecProcess == InitProcess /\ [][NextProcess]_vars

\* the resolved table lacks a coordinate column, and the fallback of the
\* function, where it has one, added none: no column of a pasted text is
\* mostly coordinate pairs or the join of the pairs failed; a Drive table
\* has no Link column or no link resolved
StillLacksCoordinates(fn, df_raw, columns) ==
    /\ Len(df_raw.rows) > 0
    /\ ~HasColumn(columns, "Latitude") \/ ~HasColumn(columns, "Longitude")
    /\ fn = "process_raw_text"
         => (FallbackColumn(df_raw.rows, columns) = 0 \/ JoinRaises(columns))
    /\ fn = "process_drive_link"
         => \/ ~HasColumn(columns, "Link")
            \/ Extracted(JoinedCoords(df_raw.rows, ColumnIndex(columns, "Link"))) = 0

\* C11: a non-empty parsed table that lacks Latitude or Longitude after column
\* resolution and after the function's fallback is answered with status
\* 'manual_mapping_required' and the raw table, never with an error or a
\* success.
C11_MissingColumnsAskMapping ==
    (op = "process"
     /\ StillLacksCoordinates(args[1], args[2],
                              _auto_detect_and_standardize_columns(args[2].columns)))
        => /\ returned.val.status = "manual_mapping_required"
           /\ returned.val.data = args[2]

\* C22: a result with status 'success' carries at least one point, and all
\* its points validate.
C22_SuccessHasPoints ==
    (op = "process" /\ returned.val.status = "success") =>
        /\ Len(returned.val.data) >= 1
        /\ AllValid(returned.val.data)

\* C27: when the columns of a pasted text still lack Latitude or Longitude,
\* process_raw_text takes the coordinates from the first column, in table
\* order, in which more than half of the non-missing cells resolve; when no
\* column is like that, a column without cells included, it answers
\* 'manual_mapping_required'.
C27_FirstMostlyCoordsColumn ==
    (op = "process" /\ args[1] = "process_raw_text" /\ Len(args[2].rows) > 0) =>
        LET rows == args[2].rows
            columns == _auto_detect_and_standardize_columns(args[2].columns)
            Resolves(cell) ==
                cell # "" /\ extract_coords_from_text([isstr |-> TRUE, s |-> cell], None).some
            qualifying ==
                {i \in DOMAIN columns :
                    2 * Cardinality({k \in DOMAIN rows : Resolves(rows[k][i])})
                        > Cardinality({k \in DOMAIN rows : rows[k][i] # ""})}
            first == CHOOSE i \in qualifying : \A j \in qualifying : i <= j
            taken == SelectSeq([k \in DOMAIN rows |-> rows[k][first]], Resolves)
        IN (~HasColumn(columns, "Latitude") \/ ~HasColumn(columns, "Longitude")) =>
              IF qualifying = {}
              THEN /\ returned.val.status = "manual_mapping_required"
                   /\ returned.val.data = args[2]
              ELSE /\ returned.val.status = "success"
                   /\ returned.val.data =
                         [k \in DOMAIN taken |->
                             extract_coords_from_text([isstr |-> TRUE, s |-> taken[k]],
                                                      None).val]

-----------------------------------------------------------------------------
(* One call of optimize_route_online *)

\* the tables handed to the online solve: at least one row, at most MaxStops
OnlineTables == {rows \in SeqsUpTo({PointA, PointB}, MaxStops) : Len(rows) >= 1}

InitOnline ==
    /\ op = "init"
    /\ df \in OnlineTables
    /\ start_node \in NodeChoices(df)
    /\ end_node \in NodeChoices(df)
    /\ solver_calls = 0
    /\ solution = None
    /\ route_indices = <<>>
    /\ optimized_df = <<>>
    /\ ExtractIdle
    /\ ResolverIdle
    /\ SessionIdle
    /\ CallIdle
    /\ OnlineIdle
    /\ ProcIdle

\* one call optimize_route_online(df, api_key, start_node, end_node); args
\* keeps the answers the service gave, the steps naming jobs of the request
OnlineCall ==
    /\ op = "init"
    /\ \E opt_response \in OptimizationResponses(Range(JobIds(df, start_node, end_node))) :
          \E dir_response \in (IF opt_response.kind = "ok" THEN DirectionsResponses
                               ELSE {"ok"}) :
              /\ args' = <<opt_response, dir_response>>
              /\ requests' = optimize_route_online(df, start_node, end_node,
                                                   opt_response, dir_response).sent
              /\ returned' = optimize_route_online(df, start_node, end_node,
                                                   opt_response, dir_response).result
              /\ final_route_indices' =
                    IF opt_response.kind = "ok"
                    THEN FinalRouteIndices(start_node, opt_response.steps, end_node)
                    ELSE <<>>
    /\ jobs' = Jobs(df, start_node, end_node)
    /\ op' = "optimize_route_online"
    /\ UNCHANGED <<offlineVars, processed_data, solveVars, mappingVars, ORS_API_KEY,
                   message, extractVars, resolverVars, procVars>>

NextOnline == OnlineCall

SpecOnline == InitOnline /\ [][NextOnline]_vars

\* C14: the requests of one online solve are a prefix of <<optimization,
\* directions>>: the directions request follows only a usable optimization
\* answer, carries the rows' coordinates in the stage-1 order, and no
\* request is sent twice.
C14_RequestsArePrefix ==
    op = "optimize_route_online" =>
        /\ Len(requests) <= 2
        /\ Len(requests) >= 1 => requests[1].endpoint = "optimization"
        /\ Len(requests) = 2 =>
              /\ requests[2].endpoint = "directions"
              /\ args[1].kind = "ok"
              /\ requests[2].coordinates =
                    [k \in DOMAIN final_route_indices |->
                        <<df[final_route_indices[k] + 1][2], df[final_route_indices[k] + 1][1]>>]
        /\ args[1].kind # "ok" => Len(requests) = 1

\* C14 witness: both requests were sent, the second with the rows in an order
\* that is not the table's
C14_Witness ==
    /\ op = "optimize_route_online"
    /\ Len(requests) = 2
    /\ df = <<PointA, PointA, PointB, PointB>>
    /\ final_route_indices = <<0, 2, 1, 3>>
    /\ requests[2].coordinates = <<LonLat(PointA), LonLat(PointB), LonLat(PointA), LonLat(PointB)>>

\* C15: an online solve returns None or a result with the ordered rows, the
\* geometry, the distance and the duration; a failure of either request
\* gives None, also when the ordering of stage 1 is already known.
C15_CompleteOrNone ==
    op = "optimize_route_online" =>
        /\ \/ returned = None
           \/ /\ returned.some
              /\ returned.val.data = Iloc(df, final_route_indices)
              /\ returned.val.geojson = "dir_result"
              /\ returned.val.distance = "distance_km"
              /\ returned.val.duration = "duration_min"
        /\ args[1].kind \in FailureKinds => returned = None
        /\ args[2] \in FailureKinds => returned = None

\* C15 witness: the directions request was sent after a usable optimization
\* answer, failed, and the solve returned None
C15_Witness ==
    /\ op = "optimize_route_online"
    /\ args[1].kind = "ok"
    /\ args[2] = "http_error"
    /\ Len(final_route_indices) = 4
    /\ Len(requests) = 2
    /\ returned = None

\* C16: the jobs submitted are the rows whose index is neither start nor end,
\* each with its index as id; the final index list is start, the ids of the
\* steps of type 'job' in the order of the response, end.
C16_JobsAndFinalOrder ==
    op = "optimize_route_online" =>
        /\ {jobs[k].id : k \in DOMAIN jobs} = (0..(Len(df) - 1)) \ {start_node, end_node}
        /\ \A k \in DOMAIN jobs :
              /\ jobs[k].location = <<df[jobs[k].id + 1][2], df[jobs[k].id + 1][1]>>
              /\ \A j \in DOMAIN jobs : jobs[j].id = jobs[k].id => j = k
        /\ requests[1].jobs = jobs
        /\ args[1].kind = "ok" =>
              LET steps == args[1].steps
                  job_at == {k \in DOMAIN steps : steps[k].type = "job"}
                  n == Cardinality(job_at)
              IN /\ Len(final_route_indices) = n + 2
                 /\ final_route_indices[1] = start_node
                 /\ final_route_indices[n + 2] = end_node
                 /\ \A k \in job_at :
                       final_route_indices[1 + Cardinality({j \in job_at : j <= k})]
                           = steps[k].id

\* C16 witness: two jobs were submitted and the response visited them in the
\* reverse order, between steps of type start and end
C16_Witness ==
    /\ op = "optimize_route_online"
    /\ Len(df) = 4 /\ start_node = 0 /\ end_node = 3
    /\ Len(jobs) = 2 /\ jobs[1].id = 1 /\ jobs[2].id = 2
    /\ Len(args[1].steps) = 4
    /\ final_route_indices = <<0, 2, 1, 3>>

(***************************************************************************)
(* The Google Maps links of a route: exporter.generate_google_maps_links,  *)
(* run one iteration of its loop at a time.  env.df is the route handed to *)
(* it, None or the sequence of its rows, each row the <<Latitude,          *)
(* Longitude>> that the link prints; pc is the loop variable i; trace is   *)
(* the list links, each link being the sequence of the points that follow  *)
(* base_url, separated by "/" in the text of the link.                     *)
(***************************************************************************)
MaxRouteLen == 20

chunk_size == 10

RoutePoint(shape, k, n) ==
    CASE shape = "distinct" -> <<k, 0 - k>>
      [] shape = "round_trip" -> IF k = n THEN <<1, 0 - 1>> ELSE <<k, 0 - k>>
      [] OTHER -> <<k % 2, 0>>

LinkRouteOf(shape, n) == [k \in 1..n |-> RoutePoint(shape, k, n)]

RouteShapes == {"distinct", "round_trip", "two_places"}

RowsOf(route) == IF route.some THEN route.val ELSE <<>>

NumPoints == Len(RowsOf(env.df))

TooShort(route) == (~route.some) \/ Len(route.val) = 0 \/ Len(route.val) < 2

\* df.iloc[i : i + chunk_size]: the rows at positions i .. i + chunk_size - 1
\* that exist.
Chunk(rows, i) ==
    SubSeq(rows, i + 1, IF i + chunk_size < Len(rows) THEN i + chunk_size ELSE Len(rows))

NextStart_disjoint(i) == i + chunk_size

\* range(0, num_points, chunk_size - 1)
NextStart(i) == i + (chunk_size - 1)

WithChunk(links, chunk) == IF Len(chunk) < 2 THEN links ELSE Append(links, chunk)

InitLinks ==
    /\ op = "init"
    /\ ExtractIdle
    /\ ResolverIdle
    /\ OfflineIdle
    /\ SessionIdle
    /\ CallIdle
    /\ OnlineIdle
    /\ pc = 0
    /\ trace = <<>>
    /\ \E n \in 0..MaxRouteLen, shape \in RouteShapes :
           env \in {[df |-> Some(LinkRouteOf(shape, n))], [df |-> None]}

LinksNone ==
    /\ ~returned.some
    /\ TooShort(env.df)
    /\ op' = "generate_google_maps_links"
    /\ returned' = Some(<<>>)
    /\ UNCHANGED <<args, env, pc, trace>>
    /\ UNCHANGED <<extractVars, resolverVars, offlineVars, sessionVars, onlineVars>>

LinksIteration ==
    /\ ~returned.some
    /\ ~TooShort(env.df)
    /\ pc < NumPoints
    /\ op' = "generate_google_maps_links"
    /\ trace' = WithChunk(trace, Chunk(env.df.val, pc))
    /\ pc' = NextStart(pc)
    /\ UNCHANGED <<args, returned, env>>
    /\ UNCHANGED <<extractVars, resolverVars, offlineVars, sessionVars, onlineVars>>

LinksReturn ==
    /\ ~returned.some
    /\ ~TooShort(env.df)
    /\ pc >= NumPoints
    /\ op' = "generate_google_maps_links"
    /\ returned' = Some(trace)
    /\ UNCHANGED <<args, env, pc, trace>>
    /\ UNCHANGED <<extractVars, resolverVars, offlineVars, sessionVars, onlineVars>>

NextLinks ==
    \/ LinksNone
    \/ LinksIteration
    \/ LinksReturn

SpecLinks == InitLinks /\ [][NextLinks]_vars

LinksReturned == op = "generate_google_maps_links" /\ returned.some

\* The position (from 0) at which the j-th link starts when the links start
\* at 0, 9, 18, ...
StartOfLink(j) == 9 * (j - 1)

\* The leg from position p to position p + 1 lies inside the j-th link.
LegInLink(links, j, p) ==
    /\ StartOfLink(j) <= p
    /\ p + 1 <= StartOfLink(j) + Len(links[j]) - 1

LinksChunkRoute(rows, links) ==
    /\ \A j \in 1..Len(links) :
           /\ Len(links[j]) \in 2..10
           /\ StartOfLink(j) + Len(links[j]) <= Len(rows)
           /\ links[j] = SubSeq(rows, StartOfLink(j) + 1, StartOfLink(j) + Len(links[j]))
    /\ \A j \in 1..(Len(links) - 1) :
           /\ links[j][Len(links[j])] = links[j + 1][1]
           /\ StartOfLink(j) + Len(links[j]) - 1 = StartOfLink(j + 1)
    /\ \A p \in 0..(Len(rows) - 1) :
           \E j \in 1..Len(links) :
               StartOfLink(j) <= p /\ p <= StartOfLink(j) + Len(links[j]) - 1
    /\ \A p \in 0..(Len(rows) - 2) :
           Cardinality({j \in 1..Len(links) : LegInLink(links, j, p)}) = 1

\* C28: for a route of n >= 2 points the links returned hold chunks of 2 to
\* 10 consecutive route points that start at positions 0, 9, 18, ..., cover
\* every point in order and overlap by exactly one point, so that every leg
\* of the route is in exactly one link; for fewer than 2 points (or no
\* route) no link is returned.
C28_LinksChunkRoute ==
    LinksReturned =>
        IF NumPoints >= 2
        THEN LinksChunkRoute(env.df.val, returned.val)
        ELSE returned.val = <<>>

\* A route of 19 points: two full links, and the one-point chunk that starts
\* at position 18 is left out.
C28_Witness ==
    /\ LinksReturned
    /\ NumPoints = 19
    /\ Len(returned.val) = 2
    /\ pc = 27

(***************************************************************************)
(* One call of gemini_services._call_gemini_api, run one attempt at a      *)
(* time.  env holds its parameters and where it stands ("configure",       *)
(* "loop" or "done"); pc is the loop variable attempt; trace lists what it *)
(* did to the outside, in order: each model.generate_content with what the *)
(* attempt produced (the str response.text, or the exception raised by the *)
(* request or by reading the text) and each time.sleep with its seconds;   *)
(* returned is what the caller gets, a value or Raised(e).                 *)
(***************************************************************************)
MaxRetries == 3

Delays == {0, 5}

ApiKeys == {"", "key"}

ResponseTexts ==
    {"{}", " {} ", "^^^json {} ^^^", "^^^json{}", "{}^^^", "^^^json", "[] ^^^ "}

\* What except Exception catches, and what it lets through.
Exceptions == {"ResourceExhausted", "ValueError"}

BaseExceptions == {"KeyboardInterrupt"}

AttemptOutcomes ==
    {PyStr(t) : t \in ResponseTexts} \cup {Raised(e) : e \in Exceptions \cup BaseExceptions}

HasPrefix(s, prefix) == Len(s) >= Len(prefix) /\ SubSeq(s, 1, Len(prefix)) = prefix

HasSuffix(s, suffix) ==
    Len(s) >= Len(suffix) /\ SubSeq(s, Len(s) - Len(suffix) + 1, Len(s)) = suffix

WithoutOpeningFence(s) == IF HasPrefix(s, "^^^json") THEN SubSeq(s, 8, Len(s)) ELSE s

WithoutClosingFence(s) == IF HasSuffix(s, "^^^") THEN SubSeq(s, 1, Len(s) - 3) ELSE s

\* json_text as returned for response.text = s.  The grave accent of the
\* Markdown fence is written ^ in the texts of the model.
JsonText(s) == Strip(WithoutClosingFence(WithoutOpeningFence(Strip(s))))

Generated(result) == [ev |-> "generate_content", result |-> result, secs |-> 0]

Slept(secs) == [ev |-> "sleep", result |-> PyNone, secs |-> secs]

\* configure_gemini: False without a key or when genai.configure raises.
configure_gemini(api_key, configure_raises) == api_key # "" /\ ~configure_raises

SleepsAfter_every_failure(attempt, retries) == attempt <= retries - 1

\* The except branch: sleep when another attempt follows, else re-raise.
SleepsAfter(attempt, retries) == attempt < retries - 1

Caught_by_loop(result) == result.kind = "raised" /\ result.s \in Exceptions

AfterAttempt(result, attempt, retries, delay) ==
    IF Caught_by_loop(result) /\ SleepsAfter(attempt, retries)
    THEN <<Generated(result), Slept(delay)>>
    ELSE <<Generated(result)>>

\* What the attempt hands to the caller, None while the loop goes on.
OutcomeOfAttempt(result, attempt, retries) ==
    IF result.kind = "str" THEN Some(PyStr(JsonText(result.s)))
    ELSE IF Caught_by_loop(result) /\ attempt < retries - 1 THEN None
    ELSE Some(result)

InitGemini ==
    /\ op = "init"
    /\ ExtractIdle
    /\ ResolverIdle
    /\ OfflineIdle
    /\ SessionIdle
    /\ CallIdle
    /\ OnlineIdle
    /\ pc = 0
    /\ trace = <<>>
    /\ \E api_key \in ApiKeys, retries \in 0..MaxRetries, delay \in Delays :
           env = [api_key |-> api_key, retries |-> retries, delay |-> delay,
                  at |-> "configure"]

GeminiConfigure ==
    /\ env.at = "configure"
    /\ op' = "_call_gemini_api"
    /\ \E configure_raises \in BOOLEAN :
           IF configure_gemini(env.api_key, configure_raises)
           THEN /\ env' = [env EXCEPT !.at = "loop"]
                /\ returned' = returned
           ELSE /\ env' = [env EXCEPT !.at = "done"]
                /\ returned' = Some(Raised("ConnectionError"))
    /\ UNCHANGED <<args, pc, trace>>
    /\ UNCHANGED <<extractVars, resolverVars, offlineVars, sessionVars, onlineVars>>

GeminiAttempt ==
    /\ env.at = "loop"
    /\ pc < env.retries
    /\ op' = "_call_gemini_api"
    /\ \E result \in AttemptOutcomes :
           /\ trace' = trace \o AfterAttempt(result, pc, env.retries, env.delay)
           /\ returned' = OutcomeOfAttempt(result, pc, env.retries)
    /\ pc' = IF returned'.some THEN pc ELSE pc + 1
    /\ env' = [env EXCEPT !.at = IF returned'.some THEN "done" ELSE "loop"]
    /\ UNCHANGED args
    /\ UNCHANGED <<extractVars, resolverVars, offlineVars, sessionVars, onlineVars>>

\* range(retries) is exhausted without a return or a raise: the function
\* falls off its end (only for retries <= 0).
GeminiLoopEnds ==
    /\ env.at = "loop"
    /\ pc >= env.retries
    /\ op' = "_call_gemini_api"
    /\ returned' = Some(PyNone)
    /\ env' = [env EXCEPT !.at = "done"]
    /\ UNCHANGED <<args, pc, trace>>
    /\ UNCHANGED <<extractVars, resolverVars, offlineVars, sessionVars, onlineVars>>

NextGemini ==
    \/ GeminiConfigure
    \/ GeminiAttempt
    \/ GeminiLoopEnds

SpecGemini == InitGemini /\ [][NextGemini]_vars

IsGenerated(i) == trace[i].ev = "generate_content"

IsSlept(i) == trace[i].ev = "sleep"

Attempts == {i \in 1..Len(trace) : IsGenerated(i)}

Succeeded(i) == IsGenerated(i) /\ trace[i].result.kind = "str"

Failed(i) == IsGenerated(i) /\ trace[i].result.kind = "raised"

GeminiDone == env.at = "done"

\* The model is invoked at most retries times and never after an attempt
\* that succeeded.
AtMostRetries ==
    /\ Cardinality(Attempts) <= env.retries
    /\ \A i \in 1..Len(trace) : Succeeded(i) => i = Len(trace) /\ GeminiDone

\* delay seconds are waited only between a failed attempt and the next one.
WaitsOnlyBetween ==
    /\ \A i \in 1..Len(trace) :
           IsSlept(i) =>
               /\ trace[i].secs = env.delay
               /\ i > 1 /\ Failed(i - 1)
               /\ i < Len(trace) => IsGenerated(i + 1)
               /\ GeminiDone => i < Len(trace)
    /\ \A i \in 1..(Len(trace) - 1) : Failed(i) => IsSlept(i + 1)

\* Once every attempt has failed the caller gets the last failure.
AllFailedPropagates ==
    (GeminiDone /\ trace # <<>> /\ \A i \in Attempts : Failed(i)) =>
        /\ Failed(Len(trace))
        /\ returned = Some(trace[Len(trace)].result)

ReturnsJsonText ==
    (GeminiDone /\ trace # <<>> /\ Succeeded(Len(trace))) =>
        returned = Some(PyStr(JsonText(trace[Len(trace)].result.s)))

ReturnsResponseText ==
    (GeminiDone /\ trace # <<>> /\ Succeeded(Len(trace))) =>
        returned = Some(trace[Len(trace)].result)

\* C30 as stated: at most retries invocations, stop at the first success and
\* return its text, wait delay seconds only between a failed attempt and the
\* next one, propagate the last failure when every attempt failed.  The text
\* returned is taken to be response.text itself.
C30_ReturnsTextOfFirstSuccess ==
    env.retries >= 1 =>
        /\ AtMostRetries
        /\ WaitsOnlyBetween
        /\ AllFailedPropagates
        /\ ReturnsResponseText

\* C30, amended: as above, but the value returned for the first successful
\* attempt is its response.text stripped of surrounding blanks, of an
\* opening fence with the word json and of a closing fence.
C30_ReturnsJsonTextOfFirstSuccess ==
    env.retries >= 1 =>
        /\ AtMostRetries
        /\ WaitsOnlyBetween
        /\ AllFailedPropagates
        /\ ReturnsJsonText

\* Two failed attempts, each followed by the wait, then a fenced answer.
C30_Witness ==
    /\ GeminiDone
    /\ env.retries = 3 /\ env.delay = 5
    /\ Len(trace) = 5
    /\ Failed(1) /\ IsSlept(2) /\ Failed(3) /\ IsSlept(4)
    /\ trace[5].result = PyStr("^^^json {} ^^^")
    /\ returned = Some(PyStr("{}"))

(***************************************************************************)
(* The commit reminder (lembrete_commit_v2.py): the main loop after its    *)
(* configuration, one action per cycle.  env holds mode ("A" or "I"),      *)
(* auto_push and whether the loop still runs; pc counts the cycles begun;  *)
(* trace lists, in order and with the cycle they belong to, what the       *)
(* cycles did: the result of get_modified_files, the answer of the pop-up, *)
(* the git add, git commit and git push commands run, and the entries      *)
(* written to the log.  The read-only git queries of git_push (branch,     *)
(* remote, upstream) appear through their results only.                    *)
(***************************************************************************)
MaxCycles == 2

\* One entry of trace.  ok: the command's return code was 0 (for "files":
\* some file is modified); note: the pop-up's action, the kind of log entry,
\* or "nothing to commit" when git commit printed it; commit, push: the
\* pop-up's checkboxes; cs, ps: the Commit and Push lines of a log entry.
Event(cycle, cmd, ok, note) ==
    [cycle |-> cycle, cmd |-> cmd, ok |-> ok, note |-> note,
     commit |-> FALSE, push |-> FALSE, cs |-> "", ps |-> ""]

Popup(cycle, response) ==
    [cycle |-> cycle, cmd |-> "popup", ok |-> TRUE, note |-> response.action,
     commit |-> response.commit, push |-> response.push, cs |-> "", ps |-> ""]

Logged(cycle, kind, commit_status, push_status) ==
    [cycle |-> cycle, cmd |-> "log", ok |-> TRUE, note |-> kind,
     commit |-> FALSE, push |-> FALSE, cs |-> commit_status, ps |-> push_status]

\* popup_commit_window: the checkboxes count only when Salvar is pressed;
\* closing the window leaves the action "ignorar".
Responses ==
    {[action |-> "salvar", commit |-> c, push |-> p] : c \in BOOLEAN, p \in BOOLEAN}
        \cup {[action |-> a, commit |-> FALSE, push |-> FALSE] : a \in {"ignorar", "encerrar"}}

\* What git commit answers: its return code and whether its output holds
\* "nothing to commit".
CommitOutputs == [returncode : {0, 1}, nothing : BOOLEAN]

\* What git_push finds: a remote named origin, an upstream of the branch,
\* and the return code of the push command if it is run.
PushOutputs == [origin : BOOLEAN, upstream : BOOLEAN, returncode : {0, 1}]

git_add_commit(commit_out) == (~commit_out.nothing) /\ commit_out.returncode = 0

CommitEvents(cycle, commit_out) ==
    <<Event(cycle, "git add", TRUE, ""),
      Event(cycle, "git commit", commit_out.returncode = 0,
            IF commit_out.nothing THEN "nothing to commit" ELSE "")>>

\* git_push: (ok, note), and the push command it runs, if any
git_push(push_out) == push_out.origin /\ push_out.returncode = 0

PushEvents(cycle, push_out) ==
    IF ~push_out.origin THEN <<>>
    ELSE <<Event(cycle, IF push_out.upstream THEN "git push" ELSE "git push -u origin",
                 push_out.returncode = 0, "")>>

PushStatusOf(push_out) == IF git_push(push_out) THEN "sucesso" ELSE "falhou"

CommitStatus(response, commit_out) ==
    IF ~response.commit THEN "não solicitado"
    ELSE IF git_add_commit(commit_out) THEN "sucesso"
    ELSE "nada para commitar"

PushAllowed_without_commit(commit_status) == commit_status \in {"sucesso", "não solicitado"}

\* "O push só é realizado após um commit bem-sucedido neste ciclo."
PushAllowed(commit_status) == commit_status = "sucesso"

PushStatus(response, commit_status, push_out) ==
    IF ~response.push THEN "não solicitado"
    ELSE IF ~PushAllowed(commit_status) THEN "ignorado (sem commit)"
    ELSE PushStatusOf(push_out)

SaveEvents(cycle, response, commit_status, commit_out, push_out) ==
    (IF response.commit THEN CommitEvents(cycle, commit_out) ELSE <<>>)
        \o (IF response.push /\ PushAllowed(commit_status)
            THEN PushEvents(cycle, push_out) ELSE <<>>)
        \o <<Logged(cycle, "salvamento", commit_status,
                    PushStatus(response, commit_status, push_out))>>

\* What run_interactive_cycle does in the given cycle.
InteractiveEvents(cycle, modified, response, commit_out, push_out) ==
    IF ~modified THEN <<Event(cycle, "files", FALSE, "")>>
    ELSE <<Event(cycle, "files", TRUE, ""), Popup(cycle, response)>> \o
         (CASE response.action = "encerrar" -> <<Logged(cycle, "encerrada", "", "")>>
            [] response.action = "ignorar" -> <<Logged(cycle, "ignorado", "", "")>>
            [] OTHER -> SaveEvents(cycle, response, CommitStatus(response, commit_out),
                                   commit_out, push_out))

\* Its return value: False ends the loop.
InteractiveContinues(modified, response) == (~modified) \/ response.action # "encerrar"

\* What run_automatic_cycle does in the given cycle.
AutomaticEvents(cycle, modified, auto_push, commit_out, push_out) ==
    IF ~modified THEN <<Event(cycle, "files", FALSE, "")>>
    ELSE <<Event(cycle, "files", TRUE, "")>> \o CommitEvents(cycle, commit_out) \o
         (IF ~git_add_commit(commit_out) THEN <<>>
          ELSE (IF auto_push THEN PushEvents(cycle, push_out) ELSE <<>>) \o
               <<Logged(cycle, "automático", "",
                        IF auto_push THEN PushStatusOf(push_out) ELSE "desabilitado")>>)

InitReminder ==
    /\ op = "init"
    /\ ExtractIdle
    /\ ResolverIdle
    /\ OfflineIdle
    /\ SessionIdle
    /\ CallIdle
    /\ OnlineIdle
    /\ pc = 0
    /\ trace = <<>>
    /\ env \in {[mode |-> "I", auto_push |-> FALSE, running |-> TRUE],
                [mode |-> "A", auto_push |-> FALSE, running |-> TRUE],
                [mode |-> "A", auto_push |-> TRUE, running |-> TRUE]}

InteractiveCycle ==
    /\ env.running
    /\ env.mode = "I"
    /\ pc < MaxCycles
    /\ op' = "run_interactive_cycle"
    /\ pc' = pc + 1
    /\ \E modified \in BOOLEAN, response \in Responses,
          commit_out \in CommitOutputs, push_out \in PushOutputs :
           /\ trace' = trace \o InteractiveEvents(pc + 1, modified, response,
                                                  commit_out, push_out)
           /\ env' = [env EXCEPT !.running = InteractiveContinues(modified, response)]
    /\ UNCHANGED callVars
    /\ UNCHANGED <<extractVars, resolverVars, offlineVars, sessionVars, onlineVars>>

AutomaticCycle ==
    /\ env.running
    /\ env.mode = "A"
    /\ pc < MaxCycles
    /\ op' = "run_automatic_cycle"
    /\ pc' = pc + 1
    /\ \E modified \in BOOLEAN, commit_out \in CommitOutputs, push_out \in PushOutputs :
           trace' = trace \o AutomaticEvents(pc + 1, modified, env.auto_push,
                                             commit_out, push_out)
    /\ UNCHANGED env
    /\ UNCHANGED callVars
    /\ UNCHANGED <<extractVars, resolverVars, offlineVars, sessionVars, onlineVars>>

\* Ctrl+C while the loop sleeps between two cycles.
ReminderInterrupt ==
    /\ env.running
    /\ op' = "KeyboardInterrupt"
    /\ trace' = Append(trace, Logged(pc, "ctrl_c", "", ""))
    /\ env' = [env EXCEPT !.running = FALSE]
    /\ UNCHANGED pc
    /\ UNCHANGED callVars
    /\ UNCHANGED <<extractVars, resolverVars, offlineVars, sessionVars, onlineVars>>

NextReminder ==
    \/ InteractiveCycle
    \/ AutomaticCycle
    \/ ReminderInterrupt

SpecReminder == InitReminder /\ [][NextReminder]_vars

IsPush(e) == e.cmd \in {"git push", "git push -u origin"}

IsCommit(e) == e.cmd = "git commit"

CommitSucceeded(e) == IsCommit(e) /\ e.ok /\ e.note = ""

InCycle(k) == {i \in 1..Len(trace) : trace[i].cycle = k /\ trace[i].note # "ctrl_c"}

\* Every push follows a commit that succeeded in the same cycle.
PushOnlyAfterCommit ==
    \A i \in 1..Len(trace) :
        IsPush(trace[i]) =>
            \E j \in 1..(i - 1) :
                trace[j].cycle = trace[i].cycle /\ CommitSucceeded(trace[j])

NoCommitNoPush(k) ==
    \A i \in InCycle(k) : ~IsCommit(trace[i]) /\ ~IsPush(trace[i]) /\ trace[i].cmd # "git add"

\* The loop was not ended by cycle k: it still runs, or a later cycle or
\* Ctrl+C came after it.
LoopWentOn(k) ==
    env.running \/ pc > k \/ trace[Len(trace)].note = "ctrl_c"

RequestedPushWithoutCommit(k) ==
    \E i \in InCycle(k) :
        /\ trace[i].cmd = "popup" /\ trace[i].note = "salvar" /\ trace[i].push
        /\ ~\E j \in InCycle(k) : CommitSucceeded(trace[j])

Skipped(k) ==
    \E i \in InCycle(k) :
        trace[i].cmd = "log" /\ trace[i].ps = "ignorado (sem commit)"

Ignored(k) ==
    \E i \in InCycle(k) :
        \/ trace[i].cmd = "files" /\ ~trace[i].ok
        \/ trace[i].cmd = "popup" /\ trace[i].note = "ignorar"

FailedOrEmptyCommit(k) ==
    \E i \in InCycle(k) : IsCommit(trace[i]) /\ ~CommitSucceeded(trace[i])

EndsAtCommit(k) ==
    \A i \in InCycle(k) : \A j \in InCycle(k) : IsCommit(trace[i]) => j <= i

\* C29: in both modes a git push is run in a cycle only after a git commit
\* succeeded in that cycle; in interactive mode a push requested without a
\* successful commit is skipped and logged as ignored, "ignorar" or no
\* modified file means no commit, no push and the loop goes on; in
\* automatic mode a failed or empty commit ends the cycle without push.
C29_PushOnlyAfterCommitInCycle ==
    /\ PushOnlyAfterCommit
    /\ \A k \in 1..pc :
           /\ (env.mode = "I" /\ RequestedPushWithoutCommit(k)) =>
                  Skipped(k) /\ \A i \in InCycle(k) : ~IsPush(trace[i])
           /\ (env.mode = "I" /\ Ignored(k)) => NoCommitNoPush(k) /\ LoopWentOn(k)
           /\ (env.mode = "A" /\ FailedOrEmptyCommit(k)) =>
                  EndsAtCommit(k) /\ \A i \in InCycle(k) : ~IsPush(trace[i])

\* An interactive cycle in which commit and push were ticked and git had
\* nothing to commit (push skipped), followed by a cycle that commits and
\* pushes.
C29_Witness ==
    /\ env.mode = "I"
    /\ pc = 2
    /\ RequestedPushWithoutCommit(1) /\ Skipped(1)
    /\ \E i \in InCycle(2) : IsPush(trace[i]) /\ trace[i].ok

(***************************************************************************)
(* The distance of two points: utils.haversine_distance on IEEE 754        *)
(* doubles.  A double is [neg, m, e], standing for (-1)^neg * m * 2^e with *)
(* 2^52 <= m < 2^53, or Zero; m is written in base 2^13, lowest digit      *)
(* first, because the numbers of the model checker have 32 bits.  +, - and *)
(* * are computed exactly and rounded to the nearest double, ties to even, *)
(* as the hardware does.  The functions of the C library (sin, cos, pow,   *)
(* sqrt, atan2) are not specified to the last bit: each is the table of    *)
(* the values it returns, on the build that runs the program, at the       *)
(* arguments that the points of DistancePoints lead to.                    *)
(***************************************************************************)
Base == 2^13

Zero == [neg |-> FALSE, m |-> <<>>, e |-> 0]
Plus(e, m) == [neg |-> FALSE, m |-> m, e |-> e]
Minus(e, m) == [neg |-> TRUE, m |-> m, e |-> e]

Digit0(x) == IF x = <<>> THEN 0 ELSE x[1]
Rest(x) == IF x = <<>> THEN <<>> ELSE Tail(x)

RECURSIVE BigTrim(_)
BigTrim(x) ==
    IF x # <<>> /\ x[Len(x)] = 0 THEN BigTrim(SubSeq(x, 1, Len(x) - 1)) ELSE x

RECURSIVE BigAddC(_, _, _)
BigAddStep(x, y, s) == <<s % Base>> \o BigAddC(Rest(x), Rest(y), s \div Base)
BigAddC(x, y, carry) ==
    IF x = <<>> /\ y = <<>> THEN (IF carry = 0 THEN <<>> ELSE <<carry>>)
    ELSE BigAddStep(x, y, Digit0(x) + Digit0(y) + carry)
BigAdd(x, y) == BigAddC(x, y, 0)

\* x - y for x >= y
RECURSIVE BigSubB(_, _, _)
BigSubStep(x, y, d) ==
    <<d % Base>> \o BigSubB(Rest(x), Rest(y), IF d < 0 THEN 1 ELSE 0)
BigSubB(x, y, borrow) ==
    IF y = <<>> /\ borrow = 0 THEN x
    ELSE BigSubStep(x, y, Digit0(x) - Digit0(y) - borrow)
BigSub(x, y) == BigTrim(BigSubB(x, y, 0))

RECURSIVE BigMulSmall(_, _, _)
BigMulSmallStep(x, d, p) == <<p % Base>> \o BigMulSmall(Tail(x), d, p \div Base)
BigMulSmall(x, d, carry) ==
    IF x = <<>> THEN (IF carry = 0 THEN <<>> ELSE <<carry>>)
    ELSE BigMulSmallStep(x, d, x[1] * d + carry)

TimesBase(x) == IF x = <<>> THEN <<>> ELSE <<0>> \o x

RECURSIVE BigMul(_, _)
BigMul(x, y) ==
    IF y = <<>> THEN <<>>
    ELSE BigAdd(BigMulSmall(x, y[1], 0), TimesBase(BigMul(x, Tail(y))))

\* x \div d for a digit d, from the highest digit down
RECURSIVE BigDivSmall(_, _, _)
BigDivSmallStep(x, d, cur) ==
    BigDivSmall(SubSeq(x, 1, Len(x) - 1), d, cur % d) \o <<cur \div d>>
BigDivSmall(x, d, rem) ==
    IF x = <<>> THEN <<>> ELSE BigDivSmallStep(x, d, rem * Base + x[Len(x)])

Zeros(n) == [i \in 1..n |-> 0]

\* x * 2^k and x \div 2^k
Shl(x, k) == IF x = <<>> THEN <<>> ELSE BigMulSmall(Zeros(k \div 13) \o x, 2^(k % 13), 0)
Shr(x, k) == BigTrim(BigDivSmall(SubSeq(x, (k \div 13) + 1, Len(x)), 2^(k % 13), 0))

RECURSIVE DigitBits(_)
DigitBits(d) == IF d = 0 THEN 0 ELSE 1 + DigitBits(d \div 2)

BitLen(x) == IF x = <<>> THEN 0 ELSE 13 * (Len(x) - 1) + DigitBits(x[Len(x)])

\* -1, 0 or 1 as x <, = or > y, comparing from digit i down
RECURSIVE BigCmpFrom(_, _, _)
BigCmpFrom(x, y, i) ==
    IF i = 0 THEN 0
    ELSE IF x[i] # y[i] THEN (IF x[i] > y[i] THEN 1 ELSE 0 - 1)
    ELSE BigCmpFrom(x, y, i - 1)
BigCmp(x, y) ==
    IF Len(x) # Len(y) THEN (IF Len(x) > Len(y) THEN 1 ELSE 0 - 1)
    ELSE BigCmpFrom(x, y, Len(x))

RECURSIVE BigOfInt(_)
BigOfInt(n) == IF n = 0 THEN <<>> ELSE <<n % Base>> \o BigOfInt(n \div Base)

RECURSIVE IntOfBig(_)
IntOfBig(x) == IF x = <<>> THEN 0 ELSE x[1] + Base * IntOfBig(Tail(x))

\* Rounding m * 2^e to 53 significant bits, to nearest, ties to even.
MantissaBits == 53

Carried(q, e) ==
    IF BitLen(q) > MantissaBits THEN [m |-> Shr(q, 1), e |-> e + 1] ELSE [m |-> q, e |-> e]

RoundedUp(q, tail_cmp) == tail_cmp = 1 \/ (tail_cmp = 0 /\ q[1] % 2 = 1)

Nearest(m, e, s, q) ==
    Carried(IF RoundedUp(q, BigCmp(BigSub(m, Shl(q, s)), Shl(<<1>>, s - 1)))
            THEN BigAdd(q, <<1>>) ELSE q,
            e + s)

RoundBits(m, e, len) ==
    IF len = 0 THEN [m |-> <<>>, e |-> 0]
    ELSE IF len <= MantissaBits
    THEN [m |-> Shl(m, MantissaBits - len), e |-> e - (MantissaBits - len)]
    ELSE Nearest(m, e, len - MantissaBits, Shr(m, len - MantissaBits))

Round(m, e) == RoundBits(m, e, BitLen(m))

Signed(neg, r) == IF r.m = <<>> THEN Zero ELSE [neg |-> neg, m |-> r.m, e |-> r.e]

\* float(n) for an int n
FloatOfInt(n) == Signed(n < 0, Round(BigOfInt(IF n < 0 THEN 0 - n ELSE n), 0))

\* x * y
Mul(x, y) == Signed(x.neg # y.neg, Round(BigMul(x.m, y.m), x.e + y.e))

MinExp(x, y) == IF x.e < y.e THEN x.e ELSE y.e

AddAt(x, y, e) == Round(BigAdd(Shl(x.m, x.e - e), Shl(y.m, y.e - e)), e)

SubAt(x, y, e) == Round(BigSub(Shl(x.m, x.e - e), Shl(y.m, y.e - e)), e)

\* |x| + |y|, and |x| - |y| for |x| >= |y|
AddMag(x, y) ==
    IF x.m = <<>> THEN [m |-> y.m, e |-> y.e]
    ELSE IF y.m = <<>> THEN [m |-> x.m, e |-> x.e]
    ELSE AddAt(x, y, MinExp(x, y))

SubMag(x, y) == IF y.m = <<>> THEN [m |-> x.m, e |-> x.e] ELSE SubAt(x, y, MinExp(x, y))

CmpMag(x, y) ==
    IF x.m = <<>> \/ y.m = <<>>
    THEN (IF x.m # <<>> THEN 1 ELSE IF y.m # <<>> THEN 0 - 1 ELSE 0)
    ELSE IF x.e # y.e THEN (IF x.e > y.e THEN 1 ELSE 0 - 1)
    ELSE BigCmp(x.m, y.m)

AddOrdered(x, y, cmp) ==
    IF cmp = 0 THEN Zero
    ELSE IF cmp = 1 THEN Signed(x.neg, SubMag(x, y))
    ELSE Signed(y.neg, SubMag(y, x))

\* x + y and x - y
Add(x, y) ==
    IF x.neg = y.neg THEN Signed(x.neg, AddMag(x, y)) ELSE AddOrdered(x, y, CmpMag(x, y))

Negated(x) == IF x.m = <<>> THEN Zero ELSE [x EXCEPT !.neg = ~x.neg]

Sub(x, y) == Add(x, Negated(y))

\* x / 2 and 2 * x
Halved(x) == IF x.m = <<>> THEN Zero ELSE [x EXCEPT !.e = x.e - 1]

Doubled(x) == IF x.m = <<>> THEN Zero ELSE [x EXCEPT !.e = x.e + 1]

\* int(x), towards zero
IntOf(x) ==
    IF x.m = <<>> THEN 0
    ELSE IF x.neg THEN 0 - IntOfBig(IF x.e < 0 THEN Shr(x.m, 0 - x.e) ELSE Shl(x.m, x.e))
    ELSE IntOfBig(IF x.e < 0 THEN Shr(x.m, 0 - x.e) ELSE Shl(x.m, x.e))

\* math.radians(x) is x * (pi / 180), the constant being this double
DegToRad == Plus(-58, <<7481, 4756, 4520, 958, 1>>)

Radians(x) == Mul(x, DegToRad)

One == Plus(-52, <<0, 0, 0, 0, 1>>)

R == 6371000

\* The points of the model, <<Latitude, Longitude>> in whole degrees: two
\* pairs of antipodes off the equator, one on it, the poles, and one place
\* written with both longitudes 180 and -180.
DistancePoints ==
    {<<0 - 12, 0>>, <<12, 180>>, <<12, 0>>, <<0, 0>>, <<0, 180>>, <<45, 90>>,
     <<0 - 45, 0 - 90>>, <<90, 0>>, <<0 - 90, 0>>, <<12, 0 - 180>>}

\* math.sin, math.cos, x ** 2 (the C pow), math.sqrt: <<x, f(x)>>
SinTable ==
    {<<Minus(-51, <<3352, 545, 7893, 4675, 1>>), Minus(-105, <<7175, 6306, 2444, 844, 1>>)>>,
     <<Minus(-51, <<466, 6553, 7967, 1458, 1>>), Minus(-53, <<7117, 5113, 1945, 3393, 1>>)>>,
     <<Minus(-52, <<3352, 545, 7893, 4675, 1>>), Minus(-52, <<0, 0, 0, 0, 1>>)>>,
     <<Minus(-52, <<466, 6553, 7967, 1458, 1>>), Minus(-53, <<3398, 6548, 6899, 6944, 1>>)>>,
     <<Minus(-53, <<2707, 5533, 5668, 6391, 1>>), Minus(-53, <<808, 2221, 6221, 4540, 1>>)>>,
     <<Minus(-53, <<3352, 545, 7893, 4675, 1>>), Minus(-53, <<7116, 5113, 1945, 3393, 1>>)>>,
     <<Minus(-53, <<3997, 3749, 1925, 2960, 1>>), Minus(-53, <<6845, 579, 6433, 2118, 1>>)>>,
     <<Minus(-54, <<2062, 2329, 3444, 8107, 1>>), Minus(-54, <<1969, 3233, 4409, 7443, 1>>)>>,
     <<Minus(-54, <<3352, 545, 7893, 4675, 1>>), Minus(-54, <<2403, 5493, 6313, 4347, 1>>)>>,
     <<Minus(-54, <<4642, 6953, 4149, 1244, 1>>), Minus(-54, <<4451, 4641, 5036, 1114, 1>>)>>,
     <<Minus(-55, <<3030, 7135, 6780, 5533, 1>>), Minus(-55, <<6390, 530, 5739, 5433, 1>>)>>,
     <<Minus(-56, <<3030, 7135, 6780, 5533, 1>>), Minus(-56, <<5996, 6626, 6182, 5508, 1>>)>>,
     <<Zero, Zero>>,
     <<Plus(-56, <<3030, 7135, 6780, 5533, 1>>), Plus(-56, <<5996, 6626, 6182, 5508, 1>>)>>,
     <<Plus(-55, <<3030, 7135, 6780, 5533, 1>>), Plus(-55, <<6390, 530, 5739, 5433, 1>>)>>,
     <<Plus(-54, <<4642, 6953, 4149, 1244, 1>>), Plus(-54, <<4451, 4641, 5036, 1114, 1>>)>>,
     <<Plus(-54, <<3352, 545, 7893, 4675, 1>>), Plus(-54, <<2403, 5493, 6313, 4347, 1>>)>>,
     <<Plus(-54, <<2062, 2329, 3444, 8107, 1>>), Plus(-54, <<1969, 3233, 4409, 7443, 1>>)>>,
     <<Plus(-53, <<3997, 3749, 1925, 2960, 1>>), Plus(-53, <<6845, 579, 6433, 2118, 1>>)>>,
     <<Plus(-53, <<3352, 545, 7893, 4675, 1>>), Plus(-53, <<7116, 5113, 1945, 3393, 1>>)>>,
     <<Plus(-53, <<2707, 5533, 5668, 6391, 1>>), Plus(-53, <<808, 2221, 6221, 4540, 1>>)>>,
     <<Plus(-52, <<466, 6553, 7967, 1458, 1>>), Plus(-53, <<3398, 6548, 6899, 6944, 1>>)>>,
     <<Plus(-52, <<3352, 545, 7893, 4675, 1>>), Plus(-52, <<0, 0, 0, 0, 1>>)>>,
     <<Plus(-51, <<466, 6553, 7967, 1458, 1>>), Plus(-53, <<7117, 5113, 1945, 3393, 1>>)>>,
     <<Plus(-51, <<3352, 545, 7893, 4675, 1>>), Plus(-105, <<7175, 6306, 2444, 844, 1>>)>>}

CosTable ==
    {<<Minus(-52, <<3352, 545, 7893, 4675, 1>>), Plus(-106, <<7175, 6306, 2444, 844, 1>>)>>,
     <<Minus(-53, <<3352, 545, 7893, 4675, 1>>), Plus(-53, <<7117, 5113, 1945, 3393, 1>>)>>,
     <<Minus(-55, <<3030, 7135, 6780, 5533, 1>>), Plus(-53, <<128, 5072, 7948, 7833, 1>>)>>,
     <<Zero, Plus(-52, <<0, 0, 0, 0, 1>>)>>,
     <<Plus(-55, <<3030, 7135, 6780, 5533, 1>>), Plus(-53, <<128, 5072, 7948, 7833, 1>>)>>,
     <<Plus(-53, <<3352, 545, 7893, 4675, 1>>), Plus(-53, <<7117, 5113, 1945, 3393, 1>>)>>,
     <<Plus(-52, <<3352, 545, 7893, 4675, 1>>), Plus(-106, <<7175, 6306, 2444, 844, 1>>)>>}

SquareTable ==
    {<<Minus(-52, <<0, 0, 0, 0, 1>>), Plus(-52, <<0, 0, 0, 0, 1>>)>>,
     <<Minus(-53, <<3398, 6548, 6899, 6944, 1>>), Plus(-53, <<7654, 6652, 5068, 5792, 1>>)>>,
     <<Minus(-53, <<808, 2221, 6221, 4540, 1>>), Plus(-53, <<2847, 3138, 1741, 1703, 1>>)>>,
     <<Minus(-53, <<7117, 5113, 1945, 3393, 1>>), Plus(-53, <<1, 0, 0, 0, 1>>)>>,
     <<Minus(-53, <<7116, 5113, 1945, 3393, 1>>), Plus(-54, <<8190, 8191, 8191, 8191, 1>>)>>,
     <<Minus(-53, <<6845, 579, 6433, 2118, 1>>), Plus(-54, <<2497, 1915, 4709, 4785, 1>>)>>,
     <<Minus(-54, <<1969, 3233, 4409, 7443, 1>>), Plus(-55, <<4550, 2296, 2196, 6729, 1>>)>>,
     <<Minus(-54, <<2403, 5493, 6313, 4347, 1>>), Plus(-55, <<2151, 6156, 4300, 1405, 1>>)>>,
     <<Minus(-54, <<4451, 4641, 5036, 1114, 1>>), Plus(-56, <<144, 2618, 7255, 2380, 1>>)>>,
     <<Minus(-55, <<6390, 530, 5739, 5433, 1>>), Plus(-57, <<854, 32, 6306, 3139, 1>>)>>,
     <<Minus(-56, <<5996, 6626, 6182, 5508, 1>>), Plus(-59, <<4111, 1535, 7788, 3264, 1>>)>>,
     <<Minus(-105, <<7175, 6306, 2444, 844, 1>>), Plus(-158, <<7496, 3154, 5025, 1775, 1>>)>>,
     <<Zero, Zero>>,
     <<Plus(-105, <<7175, 6306, 2444, 844, 1>>), Plus(-158, <<7496, 3154, 5025, 1775, 1>>)>>,
     <<Plus(-56, <<5996, 6626, 6182, 5508, 1>>), Plus(-59, <<4111, 1535, 7788, 3264, 1>>)>>,
     <<Plus(-55, <<6390, 530, 5739, 5433, 1>>), Plus(-57, <<854, 32, 6306, 3139, 1>>)>>,
     <<Plus(-54, <<4451, 4641, 5036, 1114, 1>>), Plus(-56, <<144, 2618, 7255, 2380, 1>>)>>,
     <<Plus(-54, <<2403, 5493, 6313, 4347, 1>>), Plus(-55, <<2151, 6156, 4300, 1405, 1>>)>>,
     <<Plus(-54, <<1969, 3233, 4409, 7443, 1>>), Plus(-55, <<4550, 2296, 2196, 6729, 1>>)>>,
     <<Plus(-53, <<6845, 579, 6433, 2118, 1>>), Plus(-54, <<2497, 1915, 4709, 4785, 1>>)>>,
     <<Plus(-53, <<7116, 5113, 1945, 3393, 1>>), Plus(-54, <<8190, 8191, 8191, 8191, 1>>)>>,
     <<Plus(-53, <<7117, 5113, 1945, 3393, 1>>), Plus(-53, <<1, 0, 0, 0, 1>>)>>,
     <<Plus(-53, <<808, 2221, 6221, 4540, 1>>), Plus(-53, <<2847, 3138, 1741, 1703, 1>>)>>,
     <<Plus(-53, <<3398, 6548, 6899, 6944, 1>>), Plus(-53, <<7654, 6652, 5068, 5792, 1>>)>>,
     <<Plus(-52, <<0, 0, 0, 0, 1>>), Plus(-52, <<0, 0, 0, 0, 1>>)>>}

SqrtTable ==
    {<<Zero, Zero>>,
     <<Plus(-158, <<3326, 8061, 6067, 1344, 1>>), Plus(-105, <<298, 966, 6829, 646, 1>>)>>,
     <<Plus(-59, <<4096, 1535, 7788, 3264, 1>>), Plus(-56, <<5987, 6626, 6182, 5508, 1>>)>>,
     <<Plus(-59, <<4111, 1535, 7788, 3264, 1>>), Plus(-56, <<5996, 6626, 6182, 5508, 1>>)>>,
     <<Plus(-57, <<832, 32, 6306, 3139, 1>>), Plus(-55, <<6377, 530, 5739, 5433, 1>>)>>,
     <<Plus(-57, <<854, 32, 6306, 3139, 1>>), Plus(-55, <<6390, 530, 5739, 5433, 1>>)>>,
     <<Plus(-55, <<2152, 6156, 4300, 1405, 1>>), Plus(-54, <<2404, 5493, 6313, 4347, 1>>)>>,
     <<Plus(-54, <<2496, 1915, 4709, 4785, 1>>), Plus(-53, <<6845, 579, 6433, 2118, 1>>)>>,
     <<Plus(-54, <<2497, 1915, 4709, 4785, 1>>), Plus(-53, <<6845, 579, 6433, 2118, 1>>)>>,
     <<Plus(-54, <<2498, 1915, 4709, 4785, 1>>), Plus(-53, <<6845, 579, 6433, 2118, 1>>)>>,
     <<Plus(-54, <<928, 6921, 2405, 5783, 1>>), Plus(-53, <<5424, 7248, 6509, 2507, 1>>)>>,
     <<Plus(-54, <<930, 6921, 2405, 5783, 1>>), Plus(-53, <<5425, 7248, 6509, 2507, 1>>)>>,
     <<Plus(-54, <<8190, 8191, 8191, 8191, 1>>), Plus(-53, <<7116, 5113, 1945, 3393, 1>>)>>,
     <<Plus(-54, <<8191, 8191, 8191, 8191, 1>>), Plus(-53, <<7116, 5113, 1945, 3393, 1>>)>>,
     <<Plus(-53, <<0, 0, 0, 0, 1>>), Plus(-53, <<7117, 5113, 1945, 3393, 1>>)>>,
     <<Plus(-53, <<1, 0, 0, 0, 1>>), Plus(-53, <<7117, 5113, 1945, 3393, 1>>)>>,
     <<Plus(-53, <<3631, 635, 2893, 1204, 1>>), Plus(-53, <<1373, 3664, 5348, 4215, 1>>)>>,
     <<Plus(-53, <<3632, 635, 2893, 1204, 1>>), Plus(-53, <<1373, 3664, 5348, 4215, 1>>)>>,
     <<Plus(-53, <<2847, 3138, 1741, 1703, 1>>), Plus(-53, <<808, 2221, 6221, 4540, 1>>)>>,
     <<Plus(-53, <<2848, 3138, 1741, 1703, 1>>), Plus(-53, <<809, 2221, 6221, 4540, 1>>)>>,
     <<Plus(-53, <<7654, 6652, 5068, 5792, 1>>), Plus(-53, <<3398, 6548, 6899, 6944, 1>>)>>,
     <<Plus(-53, <<8139, 7165, 6261, 7483, 1>>), Plus(-53, <<128, 5072, 7948, 7833, 1>>)>>,
     <<Plus(-53, <<8140, 7165, 6261, 7483, 1>>), Plus(-53, <<128, 5072, 7948, 7833, 1>>)>>,
     <<Plus(-53, <<64, 2536, 8070, 8012, 1>>), Plus(-53, <<1991, 1987, 2021, 8102, 1>>)>>,
     <<Plus(-52, <<0, 0, 0, 0, 1>>), Plus(-52, <<0, 0, 0, 0, 1>>)>>}

\* math.atan2: <<y, x, atan2(y, x)>>
Atan2Table ==
    {<<Zero, Plus(-52, <<0, 0, 0, 0, 1>>), Zero>>,
     <<Plus(-105, <<298, 966, 6829, 646, 1>>), Plus(-52, <<0, 0, 0, 0, 1>>),
       Plus(-105, <<298, 966, 6829, 646, 1>>)>>,
     <<Plus(-56, <<5996, 6626, 6182, 5508, 1>>), Plus(-53, <<1991, 1987, 2021, 8102, 1>>),
       Plus(-56, <<3029, 7135, 6780, 5533, 1>>)>>,
     <<Plus(-55, <<6390, 530, 5739, 5433, 1>>), Plus(-53, <<128, 5072, 7948, 7833, 1>>),
       Plus(-55, <<3029, 7135, 6780, 5533, 1>>)>>,
     <<Plus(-54, <<2404, 5493, 6313, 4347, 1>>), Plus(-53, <<3398, 6548, 6899, 6944, 1>>),
       Plus(-54, <<3353, 545, 7893, 4675, 1>>)>>,
     <<Plus(-53, <<6845, 579, 6433, 2118, 1>>), Plus(-53, <<809, 2221, 6221, 4540, 1>>),
       Plus(-53, <<3996, 3749, 1925, 2960, 1>>)>>,
     <<Plus(-53, <<6845, 579, 6433, 2118, 1>>), Plus(-53, <<808, 2221, 6221, 4540, 1>>),
       Plus(-53, <<3997, 3749, 1925, 2960, 1>>)>>,
     <<Plus(-53, <<5424, 7248, 6509, 2507, 1>>), Plus(-53, <<1373, 3664, 5348, 4215, 1>>),
       Plus(-53, <<1376, 4626, 1877, 3467, 1>>)>>,
     <<Plus(-53, <<5425, 7248, 6509, 2507, 1>>), Plus(-53, <<1373, 3664, 5348, 4215, 1>>),
       Plus(-53, <<1377, 4626, 1877, 3467, 1>>)>>,
     <<Plus(-53, <<7116, 5113, 1945, 3393, 1>>), Plus(-53, <<7117, 5113, 1945, 3393, 1>>),
       Plus(-53, <<3352, 545, 7893, 4675, 1>>)>>,
     <<Plus(-53, <<7117, 5113, 1945, 3393, 1>>), Plus(-53, <<7117, 5113, 1945, 3393, 1>>),
       Plus(-53, <<3352, 545, 7893, 4675, 1>>)>>,
     <<Plus(-53, <<7117, 5113, 1945, 3393, 1>>), Plus(-53, <<7116, 5113, 1945, 3393, 1>>),
       Plus(-53, <<3353, 545, 7893, 4675, 1>>)>>,
     <<Plus(-53, <<1373, 3664, 5348, 4215, 1>>), Plus(-53, <<5424, 7248, 6509, 2507, 1>>),
       Plus(-53, <<5328, 4656, 5716, 5884, 1>>)>>,
     <<Plus(-53, <<808, 2221, 6221, 4540, 1>>), Plus(-53, <<6845, 579, 6433, 2118, 1>>),
       Plus(-53, <<2708, 5533, 5668, 6391, 1>>)>>,
     <<Plus(-53, <<809, 2221, 6221, 4540, 1>>), Plus(-53, <<6845, 579, 6433, 2118, 1>>),
       Plus(-53, <<2708, 5533, 5668, 6391, 1>>)>>,
     <<Plus(-53, <<3398, 6548, 6899, 6944, 1>>), Plus(-54, <<2404, 5493, 6313, 4347, 1>>),
       Plus(-52, <<466, 6553, 7967, 1458, 1>>)>>,
     <<Plus(-53, <<128, 5072, 7948, 7833, 1>>), Plus(-55, <<6377, 530, 5739, 5433, 1>>),
       Plus(-52, <<3999, 3749, 1925, 2960, 1>>)>>,
     <<Plus(-53, <<1991, 1987, 2021, 8102, 1>>), Plus(-56, <<5987, 6626, 6182, 5508, 1>>),
       Plus(-52, <<3676, 2147, 813, 3818, 1>>)>>,
     <<Plus(-52, <<0, 0, 0, 0, 1>>), Zero, Plus(-52, <<3352, 545, 7893, 4675, 1>>)>>}

Lookup(table, x) == (CHOOSE row \in table : row[1] = x)[2]

Sin(x) == Lookup(SinTable, x)
Cos(x) == Lookup(CosTable, x)
Square(x) == Lookup(SquareTable, x)
Sqrt(x) == Lookup(SqrtTable, x)
Atan2(y, x) == (CHOOSE row \in Atan2Table : row[1] = y /\ row[2] = x)[3]

\* What a call gives: the int returned, or the exception raised.
Meters(n) == [raised |-> "", meters |-> n]
DomainError == [raised |-> "ValueError", meters |-> 0]

\* a = sin(delta_lat / 2)**2 + cos(lat1_rad) * cos(lat2_rad) * sin(delta_lon / 2)**2
HaversineA(lat1_rad, lat2_rad, delta_lat, delta_lon) ==
    Add(Square(Sin(Halved(delta_lat))),
        Mul(Mul(Cos(lat1_rad), Cos(lat2_rad)), Square(Sin(Halved(delta_lon)))))

\* c = 2 * atan2(sqrt(a), sqrt(1 - a)); math.sqrt raises ValueError for a
\* negative argument.  Then int(R * c).
DistanceOfParts(a, one_minus_a) ==
    IF a.neg \/ one_minus_a.neg THEN DomainError
    ELSE Meters(IntOf(Mul(FloatOfInt(R), Doubled(Atan2(Sqrt(a), Sqrt(one_minus_a))))))

DistanceOfA(a) == DistanceOfParts(a, Sub(One, a))

DistanceOfRadians(lat1_rad, lon1_rad, lat2_rad, lon2_rad) ==
    DistanceOfA(HaversineA(lat1_rad, lat2_rad, Sub(lat2_rad, lat1_rad),
                           Sub(lon2_rad, lon1_rad)))

haversine_distance(lat1, lon1, lat2, lon2) ==
    DistanceOfRadians(Radians(FloatOfInt(lat1)), Radians(FloatOfInt(lon1)),
                      Radians(FloatOfInt(lat2)), Radians(FloatOfInt(lon2)))

InitDistance ==
    /\ op = "init"
    /\ ExtractIdle
    /\ ResolverIdle
    /\ OfflineIdle
    /\ SessionIdle
    /\ OnlineIdle
    /\ ProcIdle
    /\ returned = None
    /\ args \in DistancePoints \X DistancePoints

\* One call haversine_distance(a, b) for the pair args = <<a, b>>.
Distance ==
    /\ op = "init"
    /\ op' = "haversine_distance"
    /\ returned' = Some(haversine_distance(args[1][1], args[1][2], args[2][1], args[2][2]))
    /\ UNCHANGED args
    /\ UNCHANGED <<extractVars, resolverVars, offlineVars, sessionVars, onlineVars, procVars>>

NextDistance == Distance

SpecDistance == InitDistance /\ [][NextDistance]_vars

Measured == op = "haversine_distance" /\ returned.some

\* The same call with the two points exchanged.
Exchanged == haversine_distance(args[2][1], args[2][2], args[1][1], args[1][2])

\* C21: the distance is a non-negative integer number of meters, is 0 from
\* a point to itself, and is the same in both directions, for all points.
C21_DistanceSymmetricZeroOnSelf ==
    Measured =>
        /\ returned.val.raised = ""
        /\ returned.val.meters >= 0
        /\ returned.val = Exchanged
        /\ args[1] = args[2] => returned.val.meters = 0

\* What does hold: a call that returns gives a non-negative integer, 0 for
\* the same point twice, and the exchanged call ends the same way.
DistanceSymmetricWhereDefined ==
    Measured =>
        /\ returned.val = Exchanged
        /\ returned.val.raised = "" => returned.val.meters >= 0
        /\ args[1] = args[2] => returned.val = Meters(0)

====
